---- MODULE Spec2Model ----
(***************************************************************************)
(* A model of the git object library: reference files and their           *)
(* resolution, the repository layout check, the hash-prefix lookup, the    *)
(* Tree container, and the byte codecs of Tree, Blob and Commit.           *)
(*                                                                         *)
(* Strings and byte buffers are sequences of byte values (0..255).         *)
(***************************************************************************)
EXTENDS Integers, Sequences, FiniteSets, TLC

VARIABLES
    files,   \* the ref files of the repository: path key -> file record
    walk,    \* the get_ref / get_ref_follow_links call in progress
    disk,    \* the entries of the repository root, loose objects, pack indexes
    fsres,   \* the last GitFS::new / lookup_hash call and its result
    tree,    \* a Tree<H> value: its entries in BTreeSet iteration order
    last,    \* the last operation applied to tree and what it returned
    io       \* a codec session: input bytes, decoded value, written bytes

vars == <<files, walk, disk, fsres, tree, last, io>>

-----------------------------------------------------------------------------
(* Byte-string helpers (std::str / slices).                                *)

Take(s, n) == IF n >= Len(s) THEN s ELSE SubSeq(s, 1, n)

Drop(s, n) == IF n >= Len(s) THEN <<>> ELSE SubSeq(s, n + 1, Len(s))

\* str::starts_with
StartsWith(s, p) == Len(p) <= Len(s) /\ SubSeq(s, 1, Len(p)) = p

\* char::is_whitespace on the ASCII range
IsWhitespace(c) == c \in {9, 10, 11, 12, 13, 32}

RECURSIVE trim_right(_)
trim_right(s) ==
    IF s = <<>> THEN s
    ELSE IF IsWhitespace(s[Len(s)]) THEN trim_right(SubSeq(s, 1, Len(s) - 1))
    ELSE s

\* lexicographic comparison of byte strings (Ord for [u8] / str): -1, 0, 1
RECURSIVE BytesCmp(_, _)
BytesCmp(a, b) ==
    IF a = <<>> /\ b = <<>> THEN 0
    ELSE IF a = <<>> THEN -1
    ELSE IF b = <<>> THEN 1
    ELSE IF a[1] < b[1] THEN -1
    ELSE IF a[1] > b[1] THEN 1
    ELSE BytesCmp(Tail(a), Tail(b))

\* index of the first occurrence of pat in s at or after position i; 0 if none
RECURSIVE FindFrom(_, _, _)
FindFrom(s, pat, i) ==
    IF i + Len(pat) - 1 > Len(s) THEN 0
    ELSE IF SubSeq(s, i, i + Len(pat) - 1) = pat THEN i
    ELSE FindFrom(s, pat, i + 1)

\* a str is valid UTF-8; the model's only non-ASCII byte is 255, never valid
IsUtf8(s) == \A i \in 1..Len(s) : s[i] < 128

RECURSIVE Concat(_)
Concat(ss) == IF ss = <<>> THEN <<>> ELSE Head(ss) \o Concat(Tail(ss))

-----------------------------------------------------------------------------
(* Hexadecimal (rustc_serialize::hex).                                     *)

DIGEST_SIZE == 20

HexChar(n) == IF n < 10 THEN 48 + n ELSE 87 + n

\* ToHex::to_hex: two lowercase digits per byte
RECURSIVE to_hex(_)
to_hex(bs) ==
    IF bs = <<>> THEN <<>>
    ELSE <<HexChar(Head(bs) \div 16), HexChar(Head(bs) % 16)>> \o to_hex(Tail(bs))

IsHexDigit(c) == (c >= 48 /\ c <= 57) \/ (c >= 65 /\ c <= 70) \/ (c >= 97 /\ c <= 102)

HexVal(c) == IF c <= 57 THEN c - 48 ELSE IF c <= 70 THEN c - 55 ELSE c - 87

\* FromHex::from_hex: either case, white space skipped, an odd number of
\* digits or any other character is an error
RECURSIVE from_hex_loop(_, _, _, _)
from_hex_loop(s, modulus, buf, acc) ==
    IF s = <<>> THEN
        IF modulus = 0 THEN [ok |-> TRUE, bytes |-> acc]
        ELSE [ok |-> FALSE, bytes |-> <<>>]
    ELSE IF IsHexDigit(Head(s)) THEN
        IF modulus = 1
        THEN from_hex_loop(Tail(s), 0, 0, Append(acc, buf * 16 + HexVal(Head(s))))
        ELSE from_hex_loop(Tail(s), 1, HexVal(Head(s)), acc)
    ELSE IF Head(s) \in {32, 13, 10, 9} THEN from_hex_loop(Tail(s), modulus, buf, acc)
    ELSE [ok |-> FALSE, bytes |-> <<>>]

str_from_hex(s) == from_hex_loop(s, 0, 0, <<>>)

-----------------------------------------------------------------------------
(* Results and errors (error.rs).                                          *)

Ok(v) == [tag |-> "Ok", val |-> v]

Err(kind, path) == [tag |-> "Err", err |-> [kind |-> kind, path |-> path]]

NoResult == [tag |-> "None"]

-----------------------------------------------------------------------------
(* The values of the variables a specification does not use.               *)

DiskIdle == [root |-> <<>>, loose |-> {}, packdir |-> FALSE, packs |-> <<>>]
FsIdle == [op |-> "none", open |-> FALSE, arg |-> <<>>, result |-> NoResult]
LastIdle == [op |-> "none", arg |-> <<>>, ret |-> <<>>, before |-> <<>>]
IoIdle == [phase |-> "idle", kind |-> "none", value |-> <<>>, input |-> <<>>,
           result |-> NoResult, out |-> NoResult]

-----------------------------------------------------------------------------
(* Paths (std::path): components of a Unix path.                           *)

RECURSIVE SplitSlash(_, _)
SplitSlash(s, cur) ==
    IF s = <<>> THEN <<cur>>
    ELSE IF Head(s) = 47 THEN <<cur>> \o SplitSlash(Tail(s), <<>>)
    ELSE SplitSlash(Tail(s), Append(cur, Head(s)))

RECURSIVE JoinSlash(_)
JoinSlash(ps) ==
    IF ps = <<>> THEN <<>>
    ELSE IF Len(ps) = 1 THEN ps[1]
    ELSE ps[1] \o <<47>> \o JoinSlash(Tail(ps))

\* an empty piece (repeated separator) or "." yields no component in the body
IsSkipPiece(p) == p = <<>> \/ p = <<46>>

RECURSIVE TrimLeftPieces(_)
TrimLeftPieces(ps) ==
    IF ps = <<>> THEN ps
    ELSE IF IsSkipPiece(Head(ps)) THEN TrimLeftPieces(Tail(ps))
    ELSE ps

RECURSIVE TrimRightPieces(_)
TrimRightPieces(ps) ==
    IF ps = <<>> THEN ps
    ELSE IF IsSkipPiece(ps[Len(ps)]) THEN TrimRightPieces(SubSeq(ps, 1, Len(ps) - 1))
    ELSE ps

\* Components::next in the body of a path: the component and what is left
NextBody(ps) ==
    LET t == TrimLeftPieces(ps) IN
    IF t = <<>> THEN [kind |-> "None", name |-> <<>>, rest |-> <<>>]
    ELSE IF Head(t) = <<46, 46>> THEN [kind |-> "ParentDir", name |-> <<>>, rest |-> Tail(t)]
    ELSE [kind |-> "Normal", name |-> Head(t), rest |-> Tail(t)]

\* Components::next at the start of a path: a leading "/" is RootDir, a
\* leading "." is CurDir
NextFront(ps) ==
    IF Len(ps) > 1 /\ ps[1] = <<>> THEN [kind |-> "RootDir", name |-> <<>>, rest |-> Tail(ps)]
    ELSE IF ps[1] = <<46>> THEN [kind |-> "CurDir", name |-> <<>>, rest |-> Tail(ps)]
    ELSE NextBody(ps)

\* the next piece alone
as_path_first(ps) == JoinSlash(Take(TrimLeftPieces(ps), 1))

\* Components::as_path: what is left, trimmed of separators at both ends
as_path(ps) == JoinSlash(TrimRightPieces(TrimLeftPieces(ps)))

-----------------------------------------------------------------------------
(* SpecRef and Ref (refs.rs).                                              *)

S_refs == <<114, 101, 102, 115>>                                \* "refs"
S_tags == <<116, 97, 103, 115>>                                 \* "tags"
S_heads == <<104, 101, 97, 100, 115>>                           \* "heads"
S_patches == <<112, 97, 116, 99, 104, 101, 115>>                \* "patches"
S_stash == <<115, 116, 97, 115, 104>>                           \* "stash"
S_remotes == <<114, 101, 109, 111, 116, 101, 115>>              \* "remotes"
S_HEAD == <<72, 69, 65, 68>>                                    \* "HEAD"
S_ORIG_HEAD == <<79, 82, 73, 71, 95, 72, 69, 65, 68>>           \* "ORIG_HEAD"
S_FETCH_HEAD == <<70, 69, 84, 67, 72, 95, 72, 69, 65, 68>>      \* "FETCH_HEAD"
S_ref_colon == <<114, 101, 102, 58, 32>>                        \* "ref: "

\* enum SpecRef; a is the name (the remote's name for Remote), b the branch
\* of a Remote
SpecRefOf(kind, a, b) == [kind |-> kind, a |-> a, b |-> b]

Tag(n) == SpecRefOf("Tag", n, <<>>)
Branch(n) == SpecRefOf("Branch", n, <<>>)
Remote(r, n) == SpecRefOf("Remote", r, n)
Patch(n) == SpecRefOf("Patch", n, <<>>)
Stash == SpecRefOf("Stash", <<>>, <<>>)
HeadRef == SpecRefOf("Head", <<>>, <<>>)
OriginHead == SpecRefOf("OriginHead", <<>>, <<>>)
FetchHead == SpecRefOf("FetchHead", <<>>, <<>>)

\* impl FromStr for SpecRef
SpecRef_from_str(s) ==
    LET refnstr == trim_right(s)
        c1 == NextFront(SplitSlash(refnstr, <<>>))
        c2 == NextBody(c1.rest)
        c3 == NextBody(c2.rest)
        invalid == Err("InvalidRef", refnstr)
    IN
    IF c1.kind # "Normal" THEN invalid
    ELSE IF c1.name = S_refs /\ c2.kind = "Normal" /\ c2.name = S_tags
        THEN Ok(Tag(as_path(c2.rest)))
    ELSE IF c1.name = S_refs /\ c2.kind = "Normal" /\ c2.name = S_heads
        THEN Ok(Branch(as_path(c2.rest)))
    ELSE IF c1.name = S_refs /\ c2.kind = "Normal" /\ c2.name = S_patches
        THEN Ok(Patch(as_path(c2.rest)))
    ELSE IF c1.name = S_refs /\ c2.kind = "Normal" /\ c2.name = S_stash
        THEN Ok(Stash)
    ELSE IF c1.name = S_refs /\ c2.kind = "Normal" /\ c2.name = S_remotes
            /\ c3.kind = "Normal"
        THEN Ok(Remote(c3.name, as_path(c3.rest)))
    ELSE IF c1.name = S_HEAD THEN Ok(HeadRef)
    ELSE IF c1.name = S_ORIG_HEAD THEN Ok(OriginHead)
    ELSE IF c1.name = S_FETCH_HEAD THEN Ok(FetchHead)
    ELSE invalid

\* impl fmt::Display for SpecRef, and From<SpecRef> for PathBuf
SpecRef_display(r) ==
    CASE r.kind = "Tag" -> S_refs \o <<47>> \o S_tags \o <<47>> \o r.a
      [] r.kind = "Branch" -> S_refs \o <<47>> \o S_heads \o <<47>> \o r.a
      [] r.kind = "Remote" -> S_refs \o <<47>> \o S_remotes \o <<47>> \o r.a \o <<47>> \o r.b
      [] r.kind = "Patch" -> S_refs \o <<47>> \o S_patches \o <<47>> \o r.a
      [] r.kind = "Stash" -> S_refs \o <<47>> \o S_stash
      [] r.kind = "Head" -> S_HEAD
      [] r.kind = "OriginHead" -> S_ORIG_HEAD
      [] r.kind = "FetchHead" -> S_FETCH_HEAD

\* enum Ref
RefHash(h) == [kind |-> "Hash", hash |-> h, spec |-> Stash]
RefLink(r) == [kind |-> "Link", hash |-> <<>>, spec |-> r]

\* impl FromStr for HashRef
HashRef_from_str(s) ==
    LET v == str_from_hex(s) IN
    IF ~v.ok THEN Err("Unknown", s)
    ELSE IF Len(v.bytes) # DIGEST_SIZE THEN Err("Unknown", s)
    ELSE Ok(v.bytes)

\* impl FromStr for Ref, with the prefix cut one byte short
Ref_from_str_short(s) ==
    IF StartsWith(s, S_ref_colon) THEN
        LET r == SpecRef_from_str(Drop(s, 4)) IN
        IF r.tag = "Err" THEN r ELSE Ok(RefLink(r.val))
    ELSE
        LET h == HashRef_from_str(s) IN
        IF h.tag = "Err" THEN h ELSE Ok(RefHash(h.val))

\* impl FromStr for Ref
Ref_from_str(s) ==
    IF StartsWith(s, S_ref_colon) THEN
        LET r == SpecRef_from_str(Drop(s, 5)) IN
        IF r.tag = "Err" THEN r ELSE Ok(RefLink(r.val))
    ELSE
        LET h == HashRef_from_str(s) IN
        IF h.tag = "Err" THEN h ELSE Ok(RefHash(h.val))

-----------------------------------------------------------------------------
(* Hashes used as test data: 20-byte digests.                              *)

MkHash(b1, b2) == <<b1, b2>> \o [i \in 1..(DIGEST_SIZE - 2) |-> (17 * i) % 256]

HashB1C0 == MkHash(177, 192)     \* hex b1c0...
HashB1C7 == MkHash(177, 199)     \* hex b1c7...
HashB2AA == MkHash(178, 170)     \* hex b2aa...
Hash0A1B == MkHash(10, 27)       \* hex 0a1b...

-----------------------------------------------------------------------------
(* The ref files and their resolution (fs/mod.rs, protocol/repo.rs).       *)

S_master == <<109, 97, 115, 116, 101, 114>>     \* "master"
S_v1 == <<118, 49>>                             \* "v1"

\* the refs the model's repository may hold a file for
RefUniverse == {HeadRef, Branch(S_master), Tag(S_v1)}

RefPaths == {SpecRef_display(r) : r \in RefUniverse}

NoFile == [exists |-> FALSE, data |-> <<>>]
FileOf(data) == [exists |-> TRUE, data |-> data]

\* the textual form of a symbolic ref file and of a concrete ref file
LinkLine(r) == S_ref_colon \o SpecRef_display(r) \o <<10>>
HashLine(h) == to_hex(h) \o <<10>>

\* what a ref file may contain: nothing (absent), a hash with or without
\* the final newline, a link to a ref, a truncated hash, a link to no ref,
\* bytes that are not UTF-8
RefFileContents ==
    {NoFile, FileOf(HashLine(HashB1C0)), FileOf(to_hex(HashB2AA)),
     FileOf(Take(to_hex(HashB1C0), 2 * DIGEST_SIZE - 1) \o <<10>>),
     FileOf(S_ref_colon \o S_master \o <<10>>),
     FileOf(<<255>>)}
    \cup {FileOf(LinkLine(r)) : r \in RefUniverse}

ReadFile(key) == IF key \in DOMAIN files THEN files[key] ELSE NoFile

\* GitFS::get_ref: open the file at the ref's path, read it to a string,
\* parse it
get_ref(r) ==
    LET key == SpecRef_display(r)
        f == ReadFile(key)
    IN
    IF ~f.exists THEN Err("IoError", key)
    ELSE IF ~IsUtf8(f.data) THEN Err("IoError", key)
    ELSE Ref_from_str(f.data)

\* the recursion of get_ref_follow_links is followed up to this many calls
MaxSteps == 18

WalkIdle ==
    [pc |-> "idle", op |-> "none", start |-> HeadRef, cur |-> HeadRef,
     steps |-> 0, result |-> NoResult]

\* Repo::get_ref: one read, links are returned, not followed
GetRef(r) ==
    /\ walk.pc = "idle"
    /\ walk' = [pc |-> "done", op |-> "get_ref", start |-> r, cur |-> r,
                steps |-> 1, result |-> get_ref(r)]
    /\ UNCHANGED <<files, disk, fsres, tree, last, io>>

\* Repo::get_ref_follow_links is entered
FollowStart(r) ==
    /\ walk.pc = "idle"
    /\ walk' = [pc |-> "run", op |-> "follow", start |-> r, cur |-> r,
                steps |-> 0, result |-> NoResult]
    /\ UNCHANGED <<files, disk, fsres, tree, last, io>>

\* one activation of get_ref_follow_links: try!(get_ref(r)), then recurse on
\* a Link and return on a Hash
FollowStep ==
    /\ walk.pc = "run"
    /\ walk.steps < MaxSteps
    /\ LET res == get_ref(walk.cur) IN
        walk' =
            IF res.tag = "Err"
            THEN [walk EXCEPT !.pc = "done", !.steps = @ + 1, !.result = res]
            ELSE IF res.val.kind = "Link"
            THEN [walk EXCEPT !.cur = res.val.spec, !.steps = @ + 1]
            ELSE [walk EXCEPT !.pc = "done", !.steps = @ + 1, !.result = Ok(res.val.hash)]
    /\ UNCHANGED <<files, disk, fsres, tree, last, io>>

\* the call returns to the caller
WalkReturn ==
    /\ walk.pc = "done"
    /\ walk' = WalkIdle
    /\ UNCHANGED <<files, disk, fsres, tree, last, io>>

\* a repository whose ref files hold any of the contents above
InitRefs ==
    /\ files \in [RefPaths -> RefFileContents]
    /\ walk = WalkIdle
    /\ disk = DiskIdle
    /\ fsres = FsIdle
    /\ tree = <<>>
    /\ last = LastIdle
    /\ io = IoIdle

NextRefs ==
    \/ \E r \in RefUniverse : GetRef(r)
    \/ \E r \in RefUniverse : FollowStart(r)
    \/ FollowStep
    \/ WalkReturn

SpecRefs == InitRefs /\ [][NextRefs]_vars

-----------------------------------------------------------------------------
(* Opening a repository (fs/mod.rs: GitFS::new, check_repo).               *)

\* the entries check_repo looks for under the root, in its order
RepoDirs == <<"refs", "objects", "info", "hooks">>
RepoFiles == <<"config", "description", "HEAD">>

RootNames == {RepoDirs[i] : i \in 1..Len(RepoDirs)} \cup {RepoFiles[i] : i \in 1..Len(RepoFiles)}

\* what may be found at a name under the root
EntryKinds == {"absent", "file", "dir"}

\* Path::exists and Path::is_dir / Path::is_file
PathExists(root, n) == root[n] # "absent"
PathIsDir(root, n) == root[n] = "dir"
PathIsFile(root, n) == root[n] = "file"

\* the first directory, from position i, that is missing or no directory; 0
\* when there is none
RECURSIVE FirstBadDir(_, _)
FirstBadDir(root, i) ==
    IF i > Len(RepoDirs) THEN 0
    ELSE IF ~PathExists(root, RepoDirs[i]) \/ ~PathIsDir(root, RepoDirs[i]) THEN i
    ELSE FirstBadDir(root, i + 1)

RECURSIVE FirstBadFile(_, _)
FirstBadFile(root, i) ==
    IF i > Len(RepoFiles) THEN 0
    ELSE IF ~PathExists(root, RepoFiles[i]) \/ ~PathIsFile(root, RepoFiles[i]) THEN i
    ELSE FirstBadFile(root, i + 1)

\* check_repo with the two loops in the other order
check_repo_files_first(root) ==
    IF FirstBadFile(root, 1) # 0
    THEN Err("MissingFile", RepoFiles[FirstBadFile(root, 1)])
    ELSE IF FirstBadDir(root, 1) # 0
    THEN Err("MissingDirectory", RepoDirs[FirstBadDir(root, 1)])
    ELSE Ok("unit")

\* GitFS::check_repo
check_repo(root) ==
    IF FirstBadDir(root, 1) # 0
    THEN Err("MissingDirectory", RepoDirs[FirstBadDir(root, 1)])
    ELSE IF FirstBadFile(root, 1) # 0
    THEN Err("MissingFile", RepoFiles[FirstBadFile(root, 1)])
    ELSE Ok("unit")

\* GitFS::new: git.check_repo().map(move |_| git)
GitFS_new(root) ==
    LET r == check_repo(root) IN
    IF r.tag = "Ok" THEN Ok("GitFS") ELSE r

\* GitFS::new(path)
New ==
    /\ fsres' = [op |-> "new", open |-> GitFS_new(disk.root).tag = "Ok", arg |-> <<>>,
                 result |-> GitFS_new(disk.root)]
    /\ UNCHANGED <<files, walk, disk, tree, last, io>>

\* Repo::is_valid on an open handle
IsValid ==
    /\ fsres.open
    /\ fsres' = [op |-> "is_valid", open |-> TRUE, arg |-> <<>>,
                 result |-> check_repo(disk.root)]
    /\ UNCHANGED <<files, walk, disk, tree, last, io>>

\* any directory as the root
InitOpen ==
    /\ disk \in [root : [RootNames -> EntryKinds], loose : {{}}, packdir : {FALSE},
                 packs : {<<>>}]
    /\ fsres = FsIdle
    /\ files = <<>>
    /\ walk = WalkIdle
    /\ tree = <<>>
    /\ last = LastIdle
    /\ io = IoIdle

NextOpen == New \/ IsValid

SpecOpen == InitOpen /\ [][NextOpen]_vars

-----------------------------------------------------------------------------
(* Hash-prefix lookup (fs/mod.rs: lookup_hash; fs/pack/index.rs).          *)

S_pack_dash == <<112, 97, 99, 107, 45>>     \* "pack-"
S_dot_idx == <<46, 105, 100, 120>>          \* ".idx"
S_dot_pack == <<46, 112, 97, 99, 107>>      \* ".pack"

\* str::ends_with
EndsWith(s, p) == Len(p) <= Len(s) /\ SubSeq(s, Len(s) - Len(p) + 1, Len(s)) = p

\* SHA1::from_bytes
SHA1_from_bytes(b) ==
    IF Len(b) = DIGEST_SIZE THEN [some |-> TRUE, hash |-> b]
    ELSE [some |-> FALSE, hash |-> <<>>]

\* Hash::from_hex (the trait's default)
Hash_from_hex(s) ==
    LET b == str_from_hex(s) IN
    IF b.ok THEN SHA1_from_bytes(b.bytes) ELSE [some |-> FALSE, hash |-> <<>>]

\* Hash::to_hexadecimal
to_hexadecimal(h) == to_hex(h)

\* Partial::from_hex: the string is kept as given
Partial_from_hex(s) == [some |-> TRUE, hex |-> s]

\* a test of the first digit only
is_prefix_of_first_digit(p, h) == StartsWith(to_hexadecimal(h), Take(p.hex, 1))

\* Partial::is_prefix_of
is_prefix_of(p, h) == StartsWith(to_hexadecimal(h), p.hex)

\* a file of objects/pack: its name and what parsing it as an index gives
PackFile(name, ok, hashes) == [name |-> name, ok |-> ok, hashes |-> hashes]

IdxName(h) == S_pack_dash \o to_hex(h) \o S_dot_idx

\* list_indexes: the hash part of every file named pack-<hex>.idx, in
\* directory order; names whose middle part is no hash are skipped
RECURSIVE list_indexes(_)
list_indexes(packs) ==
    IF packs = <<>> THEN <<>>
    ELSE
        LET n == Head(packs).name
            data == SubSeq(n, 6, Len(n) - 4)
        IN
        IF ~StartsWith(n, S_pack_dash) \/ ~EndsWith(n, S_dot_idx)
        THEN list_indexes(Tail(packs))
        ELSE IF Hash_from_hex(data).some
        THEN <<Hash_from_hex(data).hash>> \o list_indexes(Tail(packs))
        ELSE list_indexes(Tail(packs))

\* parse_index_file: open the index file of that name and parse it
parse_index_file(packs, name) ==
    IF \E i \in 1..Len(packs) : packs[i].name = name
    THEN LET f == packs[CHOOSE i \in 1..Len(packs) : packs[i].name = name] IN
         IF f.ok THEN Ok(f.hashes) ELSE Err("ParsingError", name)
    ELSE Err("IoError", name)

\* Vec::extend(iter.filter(pred))
RECURSIVE FilterSeq(_, _)
FilterSeq(hs, p) ==
    IF hs = <<>> THEN <<>>
    ELSE IF is_prefix_of(p, Head(hs)) THEN <<Head(hs)>> \o FilterSeq(Tail(hs), p)
    ELSE FilterSeq(Tail(hs), p)

\* the loop of lookup_hash over the indexes, with the filter left out
RECURSIVE lookup_loop_unfiltered(_, _, _, _)
lookup_loop_unfiltered(packs, idxs, p, looses) ==
    IF idxs = <<>> THEN Ok(looses)
    ELSE
        LET index == parse_index_file(packs, IdxName(Head(idxs))) IN
        IF index.tag = "Err" THEN index
        ELSE lookup_loop_unfiltered(packs, Tail(idxs), p, looses \o index.val)

\* the loop of lookup_hash over the indexes
RECURSIVE lookup_loop(_, _, _, _)
lookup_loop(packs, idxs, p, looses) ==
    IF idxs = <<>> THEN Ok(looses)
    ELSE
        LET index == parse_index_file(packs, IdxName(Head(idxs))) IN
        IF index.tag = "Err" THEN index
        ELSE lookup_loop(packs, Tail(idxs), p, looses \o FilterSeq(index.val, p))

\* GitFS::lookup_hash: looses starts empty (the loose-object lookup is
\* commented out); list_indexes fails when objects/pack cannot be read
lookup_hash(d, p) ==
    IF ~d.packdir THEN Err("IoError", S_pack_dash)
    ELSE lookup_loop(d.packs, list_indexes(d.packs), p, <<>>)

\* GitFS::lookup_hash(prefix) on an open handle
Lookup(s) ==
    /\ fsres.open
    /\ fsres' = [op |-> "lookup", open |-> TRUE, arg |-> s,
                 result |-> lookup_hash(disk, Partial_from_hex(s))]
    /\ UNCHANGED <<files, walk, disk, tree, last, io>>

\* a valid repository root
ValidRoot ==
    [n \in RootNames |-> IF \E i \in 1..Len(RepoDirs) : RepoDirs[i] = n THEN "dir" ELSE "file"]

\* the files objects/pack may hold: two indexes, an index that does not
\* parse, a packfile, an index whose name carries no full hash
PackFiles ==
    {PackFile(IdxName(Hash0A1B), TRUE, <<HashB1C7, HashB2AA>>),
     PackFile(IdxName(HashB2AA), TRUE, <<Hash0A1B, HashB1C0>>),
     PackFile(IdxName(HashB1C0), FALSE, <<>>),
     PackFile(S_pack_dash \o to_hex(Hash0A1B) \o S_dot_pack, FALSE, <<>>),
     PackFile(S_pack_dash \o <<48, 97>> \o S_dot_idx, TRUE, <<HashB1C0>>)}

\* objects/pack holds at most this many files
MaxPackFiles == 2

PackDirs ==
    {ps \in UNION {[1..n -> PackFiles] : n \in 0..MaxPackFiles} :
        \A i, j \in 1..Len(ps) : i # j => ps[i].name # ps[j].name}

LooseSets == SUBSET {HashB1C0, HashB1C7, HashB2AA}

\* the prefixes looked up: "b1c", "b1", "0a", "B1C", a full hash, ""
Prefixes ==
    {<<98, 49, 99>>, <<98, 49>>, <<48, 97>>, <<66, 49, 67>>, to_hex(HashB2AA), <<>>}

\* a valid repository with any loose objects and pack directory
InitLookup ==
    /\ \/ disk \in [root : {ValidRoot}, loose : LooseSets, packdir : {TRUE}, packs : PackDirs]
       \/ disk \in [root : {ValidRoot}, loose : LooseSets, packdir : {FALSE}, packs : {<<>>}]
    /\ fsres = FsIdle
    /\ files = <<>>
    /\ walk = WalkIdle
    /\ tree = <<>>
    /\ last = LastIdle
    /\ io = IoIdle

NextLookup ==
    \/ New
    \/ \E s \in Prefixes : Lookup(s)

SpecLookup == InitLookup /\ [][NextLookup]_vars

-----------------------------------------------------------------------------
(* Reference resolution: what the ref files mean, read off their text      *)
(* without the parser.                                                     *)

\* the depth the specification asks implementations to cap the walk at
MAX_REF_DEPTH == 16

TestHashes == {HashB1C0, HashB1C7, HashB2AA, Hash0A1B}

FileAt(r) == files[SpecRef_display(r)]

IsLinkTo(r, t) == FileAt(r) = FileOf(LinkLine(t))

HoldsHash(r, h) == FileAt(r) \in {FileOf(HashLine(h)), FileOf(to_hex(h))}

\* the end of the chain of ref files starting at r: the hash of its last
\* file, "broken" at a file that is absent or is neither a link nor a hash,
\* "cycle" when the links never end
RECURSIVE ChainEnd(_, _)
ChainEnd(r, fuel) ==
    IF \E h \in TestHashes : HoldsHash(r, h)
    THEN [kind |-> "hash", hash |-> CHOOSE h \in TestHashes : HoldsHash(r, h)]
    ELSE IF \E t \in RefUniverse : IsLinkTo(r, t)
    THEN IF fuel = 0 THEN [kind |-> "cycle", hash |-> <<>>]
         ELSE ChainEnd(CHOOSE t \in RefUniverse : IsLinkTo(r, t), fuel - 1)
    ELSE [kind |-> "broken", hash |-> <<>>]

Chain(r) == ChainEnd(r, Cardinality(RefUniverse))

\* C1: for any contents of the ref files, cyclic chains of symbolic refs
\* included, get_ref_follow_links makes at most MAX_REF_DEPTH get_ref steps.
C1_FollowBounded == walk.op = "follow" => walk.steps <= MAX_REF_DEPTH

\* C2: along an acyclic chain of ref files ending in a file that holds the
\* hash h, get_ref of a link file returns the Link without following it and
\* get_ref_follow_links returns exactly h; when a file of the chain is
\* missing or unparseable the call returns an error and never a hash.
C2_ChainResolves ==
    walk.pc = "done" =>
        /\ \A t \in RefUniverse :
            (walk.op = "get_ref" /\ IsLinkTo(walk.start, t)) =>
                (walk.result.tag = "Ok" /\ walk.result.val = RefLink(t) /\ walk.steps = 1)
        /\ (walk.op = "follow" /\ Chain(walk.start).kind = "hash") =>
                (walk.result.tag = "Ok" /\ walk.result.val = Chain(walk.start).hash)
        /\ (walk.op = "follow" /\ Chain(walk.start).kind = "broken") =>
                walk.result.tag = "Err"
        /\ walk.op = "follow" => Chain(walk.start).kind # "cycle"

\* HEAD links to refs/heads/master, which holds a hash: followed in two steps
C2_Witness ==
    /\ walk.pc = "done" /\ walk.op = "follow" /\ walk.start = HeadRef
    /\ IsLinkTo(HeadRef, Branch(S_master))
    /\ HoldsHash(Branch(S_master), HashB1C0)
    /\ walk.steps = 2
    /\ walk.result = Ok(HashB1C0)


-----------------------------------------------------------------------------
(* Claims about the repository on disk.                                    *)

\* the lowercase hexadecimal digits, by value
LowerHexDigits == <<48, 49, 50, 51, 52, 53, 54, 55, 56, 57, 97, 98, 99, 100, 101, 102>>

\* the k-th hexadecimal digit (from 1) of a hash
NibbleAt(h, k) == IF k % 2 = 1 THEN h[(k + 1) \div 2] \div 16 ELSE h[k \div 2] % 16

\* p is a prefix of the lowercase hexadecimal form of h, digit by digit
HasHexPrefix(p, h) ==
    /\ Len(p) <= 2 * Len(h)
    /\ \A k \in 1..Len(p) : p[k] = LowerHexDigits[NibbleAt(h, k) + 1]

\* the ids of all entries of the pack files of the repository
PackIds == UNION {{disk.packs[i].hashes[j] : j \in 1..Len(disk.packs[i].hashes)} :
                    i \in 1..Len(disk.packs)}

ResultSet == {fsres.result.val[i] : i \in 1..Len(fsres.result.val)}

\* C6: when no pack-index entry starts with p, lookup_hash(p) returns exactly
\* the loose-object ids that p is a hex prefix of.
C6_LooseOnly ==
    (/\ fsres.op = "lookup"
     /\ fsres.result.tag = "Ok"
     /\ \A h \in PackIds : ~HasHexPrefix(fsres.arg, h)) =>
        ResultSet = {h \in disk.loose : HasHexPrefix(fsres.arg, h)}

\* C7: every hash returned by lookup_hash(p) has p as a prefix of its
\* lowercase hexadecimal form.
C7_ResultsHavePrefix ==
    (fsres.op = "lookup" /\ fsres.result.tag = "Ok") =>
        \A h \in ResultSet : HasHexPrefix(fsres.arg, h)

C7_Witness ==
    /\ fsres.op = "lookup"
    /\ fsres.arg = <<98, 49, 99>>
    /\ HashB2AA \in PackIds
    /\ fsres.result = Ok(<<HashB1C7, HashB1C0>>)

\* the order in which the layout is checked
LayoutDirs == <<"refs", "objects", "info", "hooks">>
LayoutFiles == <<"config", "description", "HEAD">>

AllDirsPresent == \A i \in 1..Len(LayoutDirs) : disk.root[LayoutDirs[i]] = "dir"
AllFilesPresent == \A i \in 1..Len(LayoutFiles) : disk.root[LayoutFiles[i]] = "file"

\* C8: GitFS::new returns a handle iff the four directories and the three
\* files are there; otherwise MissingDirectory for the first directory that is
\* not there, or, with all directories there, MissingFile for the first file
\* that is not there, and no handle.
C8_NewChecksLayout ==
    fsres.op = "new" =>
        /\ fsres.result.tag = "Ok" <=> (AllDirsPresent /\ AllFilesPresent)
        /\ fsres.open <=> fsres.result.tag = "Ok"
        /\ ~AllDirsPresent =>
            \E i \in 1..Len(LayoutDirs) :
                /\ disk.root[LayoutDirs[i]] # "dir"
                /\ \A j \in 1..(i - 1) : disk.root[LayoutDirs[j]] = "dir"
                /\ fsres.result = Err("MissingDirectory", LayoutDirs[i])
        /\ (AllDirsPresent /\ ~AllFilesPresent) =>
            \E i \in 1..Len(LayoutFiles) :
                /\ disk.root[LayoutFiles[i]] # "file"
                /\ \A j \in 1..(i - 1) : disk.root[LayoutFiles[j]] = "file"
                /\ fsres.result = Err("MissingFile", LayoutFiles[i])

C8_Witness ==
    /\ fsres.op = "new"
    /\ AllDirsPresent
    /\ disk.root["config"] = "file"
    /\ disk.root["description"] = "dir"
    /\ disk.root["HEAD"] = "absent"
    /\ fsres.result = Err("MissingFile", "description")
    /\ ~fsres.open

-----------------------------------------------------------------------------
(* Ordering of paths (std::path: Ord for Path compares the components).    *)

\* the components of a path, from a list of its pieces between separators
RECURSIVE BodyComponents(_)
BodyComponents(ps) ==
    LET c == NextBody(ps) IN
    IF c.kind = "None" THEN <<>>
    ELSE <<[kind |-> c.kind, name |-> c.name]>> \o BodyComponents(c.rest)

\* Path::components
Components(s) ==
    LET c == NextFront(SplitSlash(s, <<>>)) IN
    IF c.kind = "None" THEN <<>>
    ELSE <<[kind |-> c.kind, name |-> c.name]>> \o BodyComponents(c.rest)

\* the derived order of enum Component: RootDir < CurDir < ParentDir < Normal
ComponentRank(k) ==
    CASE k = "RootDir" -> 1 [] k = "CurDir" -> 2 [] k = "ParentDir" -> 3 [] OTHER -> 4

ComponentCmp(a, b) ==
    IF ComponentRank(a.kind) < ComponentRank(b.kind) THEN -1
    ELSE IF ComponentRank(a.kind) > ComponentRank(b.kind) THEN 1
    ELSE BytesCmp(a.name, b.name)

\* Iterator::cmp over two component lists
RECURSIVE ComponentsCmp(_, _)
ComponentsCmp(a, b) ==
    IF a = <<>> /\ b = <<>> THEN 0
    ELSE IF a = <<>> THEN -1
    ELSE IF b = <<>> THEN 1
    ELSE IF ComponentCmp(Head(a), Head(b)) # 0 THEN ComponentCmp(Head(a), Head(b))
    ELSE ComponentsCmp(Tail(a), Tail(b))

\* Ord for PathBuf: -1, 0, 1
PathCmp(a, b) == ComponentsCmp(Components(a), Components(b))

-----------------------------------------------------------------------------
(* Tree entries and the Tree container (object/tree.rs).                   *)

\* PermissionSet::new_from_byte
PermissionSet_new_from_byte_swapped(byte) ==
    CASE byte = 49 -> {"Write"}
      [] byte = 50 -> {"Executable"}
      [] byte = 51 -> {"Executable", "Write"}
      [] byte = 52 -> {"Read"}
      [] byte = 53 -> {"Read", "Write"}
      [] byte = 54 -> {"Read", "Executable"}
      [] byte = 55 -> {"Executable", "Read", "Write"}
      [] OTHER -> {}

\* PermissionSet::new_from_byte
PermissionSet_new_from_byte(byte) ==
    CASE byte = 49 -> {"Executable"}
      [] byte = 50 -> {"Write"}
      [] byte = 51 -> {"Executable", "Write"}
      [] byte = 52 -> {"Read"}
      [] byte = 53 -> {"Read", "Executable"}
      [] byte = 54 -> {"Read", "Write"}
      [] byte = 55 -> {"Executable", "Read", "Write"}
      [] OTHER -> {}

\* permission_write
permission_write(ps) ==
    (IF "Read" \in ps THEN 4 ELSE 0) + (IF "Write" \in ps THEN 2 ELSE 0)
        + (IF "Executable" \in ps THEN 1 ELSE 0)

Permissions(u, g, o) == [user |-> u, group |-> g, other |-> o]

\* Permissions::default_dir: no permission at all
default_dir == Permissions({}, {}, {})

\* Permissions::default_file: 644
default_file ==
    Permissions(PermissionSet_new_from_byte(54), PermissionSet_new_from_byte(52),
                PermissionSet_new_from_byte(52))

\* Permissions::default_exe: 755
default_exe ==
    Permissions(PermissionSet_new_from_byte(55), PermissionSet_new_from_byte(53),
                PermissionSet_new_from_byte(53))

\* Display for Permissions: "0" and one octal digit per group
Permissions_display(p) ==
    <<48, 48 + permission_write(p.user), 48 + permission_write(p.group),
      48 + permission_write(p.other)>>

\* TreeEnt::Blob and TreeEnt::Tree
TreeEntBlob(perm, name, h) == [kind |-> "Blob", perm |-> perm, name |-> name, hash |-> h]
TreeEntTree(perm, name, h) == [kind |-> "Tree", perm |-> perm, name |-> name, hash |-> h]

\* TreeEnt::get_ent_type: "4" or "10"
get_ent_type(e) == IF e.kind = "Tree" THEN <<52>> ELSE <<49, 48>>

\* every entry made a Tree
TreeEnt_new_from_tree(ty, perm, name, h) == TreeEntTree(perm, name, h)

\* TreeEnt::new_from
TreeEnt_new_from(ty, perm, name, h) ==
    IF ty = <<49, 48>> THEN TreeEntBlob(perm, name, h) ELSE TreeEntTree(perm, name, h)

\* the position in the set of the entry equal to the key (Ord on the path);
\* 0 when there is none
FindEq(t, name) ==
    LET eq == {i \in 1..Len(t) : PathCmp(t[i].name, name) = 0} IN
    IF eq = {} THEN 0 ELSE CHOOSE i \in eq : TRUE

\* a new key put at the end, whatever its rank
PlaceNew_at_end(t, e) == Append(t, e)

\* a new key put where the order has it
PlaceNew(t, e) ==
    LET k == Cardinality({i \in 1..Len(t) : PathCmp(t[i].name, e.name) < 0}) IN
    SubSeq(t, 1, k) \o <<e>> \o SubSeq(t, k + 1, Len(t))

RemoveAt(t, i) == SubSeq(t, 1, i - 1) \o SubSeq(t, i + 1, Len(t))

\* insert that overwrites the stored entry of an equal key
BTreeSet_insert_overwrite(t, e) ==
    IF FindEq(t, e.name) # 0
    THEN [set |-> [t EXCEPT ![FindEq(t, e.name)] = e], ret |-> FALSE]
    ELSE [set |-> PlaceNew(t, e), ret |-> TRUE]

\* BTreeSet::insert: an equal key keeps the stored entry
BTreeSet_insert(t, e) ==
    IF FindEq(t, e.name) # 0
    THEN [set |-> t, ret |-> FALSE]
    ELSE [set |-> PlaceNew(t, e), ret |-> TRUE]

Some(v) == [some |-> TRUE, val |-> v]
None == [some |-> FALSE, val |-> <<>>]

\* BTreeSet::replace
BTreeSet_replace(t, e) ==
    IF FindEq(t, e.name) # 0
    THEN [set |-> [t EXCEPT ![FindEq(t, e.name)] = e], ret |-> Some(t[FindEq(t, e.name)])]
    ELSE [set |-> PlaceNew(t, e), ret |-> None]

\* BTreeSet::remove
BTreeSet_remove(t, name) ==
    IF FindEq(t, name) # 0
    THEN [set |-> RemoveAt(t, FindEq(t, name)), ret |-> TRUE]
    ELSE [set |-> t, ret |-> FALSE]

\* BTreeSet::take
BTreeSet_take(t, name) ==
    IF FindEq(t, name) # 0
    THEN [set |-> RemoveAt(t, FindEq(t, name)), ret |-> Some(t[FindEq(t, name)])]
    ELSE [set |-> t, ret |-> None]

\* BTreeSet::extend: insert each element in turn
RECURSIVE BTreeSet_extend(_, _)
BTreeSet_extend(t, es) ==
    IF es = <<>> THEN t
    ELSE BTreeSet_extend(BTreeSet_insert(t, Head(es)).set, Tail(es))

-----------------------------------------------------------------------------
(* Byte codecs of Tree and Blob (object/tree.rs, object/blob.rs).          *)

\* nom::IResult
Done(rest, val) == [tag |-> "Done", rest |-> rest, val |-> val]
IError == [tag |-> "Error"]
Incomplete == [tag |-> "Incomplete"]
\* the call does not return: a slice index out of range, an unwrap of None
Panic == [tag |-> "Panic"]

S_tree_sp == <<116, 114, 101, 101, 32>>     \* "tree "
S_blob_sp == <<98, 108, 111, 98, 32>>       \* "blob "

\* format!("{}", n) for a usize
RECURSIVE ToDec(_)
ToDec(n) == IF n < 10 THEN <<48 + n>> ELSE ToDec(n \div 10) \o <<48 + (n % 10)>>

IsDigit(c) == c >= 48 /\ c <= 57

\* usize::from_str on a run of decimal digits
RECURSIVE FromDec(_, _)
FromDec(ds, acc) == IF ds = <<>> THEN acc ELSE FromDec(Tail(ds), 10 * acc + (Head(ds) - 48))

\* the length of the longest run of digits at the start of b
RECURSIVE DigitRun(_)
DigitRun(b) == IF b = <<>> \/ ~IsDigit(Head(b)) THEN 0 ELSE 1 + DigitRun(Tail(b))

\* tag!(t): Done past the tag, Incomplete on a proper prefix of it, else Error
nom_tag(b, t) ==
    IF StartsWith(b, t) THEN Done(Drop(b, Len(t)), t)
    ELSE IF Len(b) < Len(t) /\ StartsWith(t, b) THEN Incomplete
    ELSE IError

\* chain!(tag ~ size ~ char!('\0')): the header of a tree or a blob
nom_parse_head(b, t) ==
    LET r == nom_tag(b, t) IN
    IF r.tag # "Done" THEN r
    ELSE
        LET n == DigitRun(r.rest)
            after == Drop(r.rest, n)
        IN
        IF n = 0 THEN IError
        ELSE IF after = <<>> THEN Incomplete
        ELSE IF Head(after) # 0 THEN IError
        ELSE Done(Tail(after), FromDec(Take(r.rest, n), 0))

\* nom_parse_tree_head and nom_parse_blob
nom_parse_tree_head(b) == nom_parse_head(b, S_tree_sp)
nom_parse_blob(b) == nom_parse_head(b, S_blob_sp)

\* Encoder for TreeEnt: type digits, permissions, space, name, NUL, raw hash;
\* to_str().unwrap() panics on a name that is not UTF-8
TreeEnt_encode(e) ==
    get_ent_type(e) \o Permissions_display(e.perm) \o <<32>> \o e.name \o <<0>> \o e.hash

\* Encoder for TreeEnt: required_size
TreeEnt_required_size(e) ==
    Len(get_ent_type(e) \o Permissions_display(e.perm) \o <<32>> \o e.name \o <<0>>)
        + DIGEST_SIZE

RECURSIVE Tree_required_size(_)
Tree_required_size(t) ==
    IF t = <<>> THEN 0 ELSE TreeEnt_required_size(Head(t)) + Tree_required_size(Tail(t))

\* the entries as written one after the other, in iteration order
RECURSIVE Tree_encode_entries(_)
Tree_encode_entries(t) ==
    IF t = <<>> THEN <<>> ELSE TreeEnt_encode(Head(t)) \o Tree_encode_entries(Tail(t))

\* Encoder for Tree
Tree_encode(t) ==
    IF \E i \in 1..Len(t) : ~IsUtf8(t[i].name) THEN Panic
    ELSE Ok(S_tree_sp \o ToDec(Tree_required_size(t)) \o <<0>> \o Tree_encode_entries(t))

\* tree_ent_parse_permissions: "0", then one byte for each of user, group
\* and other
tree_ent_parse_permissions(b) ==
    LET zero == nom_tag(b, <<48>>) IN
    IF zero.tag # "Done" THEN zero
    ELSE IF Len(zero.rest) < 3 THEN Incomplete
    ELSE Done(Drop(zero.rest, 3),
              Permissions(PermissionSet_new_from_byte(zero.rest[1]),
                          PermissionSet_new_from_byte(zero.rest[2]),
                          PermissionSet_new_from_byte(zero.rest[3])))

\* Decoder for TreeEnt: nom_parse_tree_ent_head then H::decode_bytes
TreeEnt_decode(b) ==
    LET ty == IF nom_tag(b, <<52>>).tag = "Done" THEN nom_tag(b, <<52>>)
              ELSE nom_tag(b, <<49, 48>>)
    IN
    IF ty.tag # "Done" THEN ty
    ELSE
        LET perm == tree_ent_parse_permissions(ty.rest) IN
        IF perm.tag # "Done" THEN perm
        ELSE
            LET sp == nom_tag(perm.rest, <<32>>) IN
            IF sp.tag # "Done" THEN sp
            ELSE
                LET nul == FindFrom(sp.rest, <<0>>, 1) IN
                IF nul = 0 THEN Incomplete
                ELSE IF ~IsUtf8(Take(sp.rest, nul - 1)) THEN IError
                ELSE
                    LET i == Drop(sp.rest, nul) IN
                    IF Len(i) < DIGEST_SIZE THEN Panic
                    ELSE Done(Drop(i, DIGEST_SIZE),
                              TreeEnt_new_from(ty.val, perm.val, Take(sp.rest, nul - 1),
                                               Take(i, DIGEST_SIZE)))

\* the loop of nom_parse_tree: decode entries while they decode, insert each
RECURSIVE nom_parse_tree_loop(_, _)
nom_parse_tree_loop(b, t) ==
    LET r == TreeEnt_decode(b) IN
    IF r.tag = "Done" THEN nom_parse_tree_loop(r.rest, BTreeSet_insert(t, r.val).set)
    ELSE IF r.tag = "Panic" THEN Panic
    ELSE Done(b, t)

\* nom_parse_tree
nom_parse_tree(b) ==
    LET h == nom_parse_tree_head(b) IN
    IF h.tag # "Done" THEN h
    ELSE IF Len(h.rest) < h.val THEN Incomplete
    ELSE nom_parse_tree_loop(h.rest, <<>>)

\* Decoder for Tree
Tree_decode(b) == nom_parse_tree(b)

\* Encoder for Blob
Blob_encode(d) == Ok(S_blob_sp \o ToDec(Len(d)) \o <<0>> \o d)

\* Decoder for Blob
Blob_decode(b) ==
    LET h == nom_parse_blob(b) IN
    IF h.tag # "Done" THEN h
    ELSE IF Len(h.rest) < h.val THEN Incomplete
    ELSE Done(Drop(h.rest, h.val), Take(h.rest, h.val))

-----------------------------------------------------------------------------
(* A Tree under its operations (object/tree.rs: impl Tree, Extend,         *)
(* Decoder, Encoder).                                                      *)

S_a == <<97>>                   \* "a"
S_a_slash == <<97, 47>>         \* "a/"
S_a_dot_b == <<97, 46, 98>>     \* "a.b"
S_a_slash_b == <<97, 47, 98>>   \* "a/b"

\* the entries the operations are called with: two entries of the same name
\* and different kind, a name equal to it as a path, names with '.' and '/'
Entries ==
    {TreeEntBlob(default_file, S_a, HashB1C0),
     TreeEntTree(default_dir, S_a, HashB2AA),
     TreeEntBlob(default_exe, S_a_slash, HashB1C7),
     TreeEntBlob(default_file, S_a_dot_b, HashB1C0),
     TreeEntTree(default_dir, S_a_slash_b, Hash0A1B)}

Names == {e.name : e \in Entries}

\* extend takes at most this many entries
MaxExtend == 2

\* a tree to decode holds at most this many entries
MaxDecoded == 2

EntrySeqs(n) == UNION {[1..k -> Entries] : k \in 0..n}

\* the bytes of a tree object whose entries are written in the given order
WireOf(es) == S_tree_sp \o ToDec(Tree_required_size(es)) \o <<0>> \o Tree_encode_entries(es)

\* the record of a call with a return value: its argument and what it
\* returned; insert and replace also keep the tree they were called on
Called(op, arg, ret) == [op |-> op, arg |-> arg, ret |-> ret, before |-> <<>>]
CalledOn(t, op, arg, ret) == [op |-> op, arg |-> arg, ret |-> ret, before |-> t]

\* Tree::insert
Insert(e) ==
    /\ LET r == BTreeSet_insert(tree, e) IN
        /\ tree' = r.set
        /\ last' = CalledOn(tree, "insert", e, r.ret)
    /\ UNCHANGED <<files, walk, disk, fsres, io>>

\* Tree::replace
Replace(e) ==
    /\ LET r == BTreeSet_replace(tree, e) IN
        /\ tree' = r.set
        /\ last' = CalledOn(tree, "replace", e, r.ret)
    /\ UNCHANGED <<files, walk, disk, fsres, io>>

\* Tree::remove
Remove(n) ==
    /\ LET r == BTreeSet_remove(tree, n) IN
        /\ tree' = r.set
        /\ last' = Called("remove", n, r.ret)
    /\ UNCHANGED <<files, walk, disk, fsres, io>>

\* Tree::take
TakeEntry(n) ==
    /\ LET r == BTreeSet_take(tree, n) IN
        /\ tree' = r.set
        /\ last' = Called("take", n, r.ret)
    /\ UNCHANGED <<files, walk, disk, fsres, io>>

\* Extend for Tree
Extend(es) ==
    /\ tree' = BTreeSet_extend(tree, es)
    /\ last' = Called("extend", <<>>, <<>>)
    /\ UNCHANGED <<files, walk, disk, fsres, io>>

\* Tree::clear
Clear ==
    /\ tree' = <<>>
    /\ last' = Called("clear", <<>>, <<>>)
    /\ UNCHANGED <<files, walk, disk, fsres, io>>

\* Tree::decode(b): the tree becomes the decoded one
DecodeTree(b) ==
    /\ LET r == Tree_decode(b) IN
        /\ r.tag = "Done"
        /\ tree' = r.val
        /\ last' = Called("decode", <<>>, r.tag)
    /\ UNCHANGED <<files, walk, disk, fsres, io>>

\* Tree::encode(&mut writer): what is written
EncodeTree ==
    /\ last' = Called("encode", <<>>, Tree_encode(tree))
    /\ UNCHANGED <<files, walk, disk, fsres, tree, io>>

\* Tree::new
InitTree ==
    /\ tree = <<>>
    /\ last = LastIdle
    /\ files = <<>>
    /\ walk = WalkIdle
    /\ disk = DiskIdle
    /\ fsres = FsIdle
    /\ io = IoIdle

NextTree ==
    \/ \E e \in Entries : Insert(e)
    \/ \E e \in Entries : Replace(e)
    \/ \E n \in Names : Remove(n)
    \/ \E n \in Names : TakeEntry(n)
    \/ \E es \in EntrySeqs(MaxExtend) : Extend(es)
    \/ Clear
    \/ \E es \in EntrySeqs(MaxDecoded) : DecodeTree(WireOf(es))
    \/ EncodeTree

SpecTree == InitTree /\ [][NextTree]_vars

-----------------------------------------------------------------------------
(* Claims about the Tree container.                                        *)

\* the entry names found in the bytes of a tree object, read field by field:
\* after the header's NUL, each entry is mode, space, name, NUL, raw hash
RECURSIVE NamesIn(_)
NamesIn(b) ==
    IF b = <<>> THEN <<>>
    ELSE
        LET sp == FindFrom(b, <<32>>, 1)
            nul == FindFrom(b, <<0>>, sp + 1)
        IN
        <<SubSeq(b, sp + 1, nul - 1)>> \o NamesIn(Drop(b, nul + DIGEST_SIZE))

WrittenNames(b) == NamesIn(Drop(b, FindFrom(b, <<0>>, 1)))

\* a name of one plain component: no separator, not "", "." or ".."
PlainName(n) == n # <<>> /\ n # <<46>> /\ n # <<46, 46>> /\ \A i \in 1..Len(n) : n[i] # 47

C10_UniqueNames ==
    /\ \A i, j \in 1..Len(tree) :
        i # j => (tree[i].name # tree[j].name /\ PathCmp(tree[i].name, tree[j].name) # 0)
    /\ (last.op = "insert" /\ \E i \in 1..Len(last.before) : last.before[i].name = last.arg.name) =>
        (last.ret = FALSE /\ tree = last.before)
    /\ (last.op = "insert" /\ \A i \in 1..Len(last.before) : PathCmp(last.before[i].name, last.arg.name) # 0) =>
        (last.ret = TRUE /\ \E i \in 1..Len(tree) : tree[i] = last.arg)
    /\ (last.op = "replace" /\ \E i \in 1..Len(last.before) : last.before[i].name = last.arg.name) =>
        \E i \in 1..Len(last.before) :
            /\ last.before[i].name = last.arg.name
            /\ last.ret = Some(last.before[i])
            /\ tree = [last.before EXCEPT ![i] = last.arg]

C10_Witness ==
    /\ last.op = "insert"
    /\ last.arg = TreeEntTree(default_dir, S_a, HashB2AA)
    /\ last.ret = FALSE
    /\ \E i \in 1..Len(tree) : tree[i] = TreeEntBlob(default_file, S_a, HashB1C0)
    /\ Len(tree) > 1

C10_WitnessReplace ==
    /\ last.op = "replace"
    /\ last.arg = TreeEntTree(default_dir, S_a, HashB2AA)
    /\ last.ret = Some(TreeEntBlob(default_file, S_a, HashB1C0))

-----------------------------------------------------------------------------
(* Byte codec of Commit (object/commit.rs, person.rs, date.rs,             *)
(* protocol/hash.rs).                                                      *)

S_commit_sp == <<99, 111, 109, 109, 105, 116, 32>>                      \* "commit "
S_parent_sp == <<112, 97, 114, 101, 110, 116, 32>>                      \* "parent "
S_author_sp == <<97, 117, 116, 104, 111, 114, 32>>                      \* "author "
S_committer_sp == <<99, 111, 109, 109, 105, 116, 116, 101, 114, 32>>    \* "committer "
S_encoding_sp == <<101, 110, 99, 111, 100, 105, 110, 103, 32>>          \* "encoding "

\* try_parse! and chain!: the parser's result when it is not Done, else the
\* rest of the parser on what it returned
try_parse(r, then(_)) == IF r.tag # "Done" THEN r ELSE then(r)

\* a step inside opt! or many0!: an Error ends it with what it had, Incomplete
\* goes up, Done goes on
opt_step(r, had, then(_)) ==
    IF r.tag = "Error" THEN had
    ELSE IF r.tag = "Incomplete" THEN Incomplete
    ELSE then(r)

\* if let / while let Done(..) = parser: anything else is the other branch
if_done(r, other, then(_)) == IF r.tag = "Done" THEN then(r) ELSE other

\* the length of the longest run of bytes of the set at the start of b
RECURSIVE RunOf(_, _)
RunOf(b, set) == IF b = <<>> \/ Head(b) \notin set THEN 0 ELSE 1 + RunOf(Tail(b), set)

\* take_while1!(pred): at least one byte, up to the end of the input
split_at(b, n) == IF n = 0 THEN IError ELSE Done(Drop(b, n), Take(b, n))

take_while1(b, set) == split_at(b, RunOf(b, set))

\* char!(c)
nom_char(b, c) ==
    IF b = <<>> THEN Incomplete
    ELSE IF Head(b) # c THEN IError
    ELSE Done(Tail(b), c)

\* take_until_and_consume!(t): the bytes before the first t, the rest after it
split_around(b, t, i) ==
    IF i = 0 THEN IError ELSE Done(Drop(b, i + Len(t) - 1), Take(b, i - 1))

take_until_and_consume(b, t) ==
    IF Len(t) > Len(b) THEN Incomplete ELSE split_around(b, t, FindFrom(b, t, 1))

HexDigits == {c \in 0..255 : IsHexDigit(c)}
Digits == {c \in 0..255 : IsDigit(c)}

\* Hash::from_hex(..).ok(): None makes the parser Incomplete
hash_or_incomplete(rest, h) == IF h.some THEN Done(rest, h.hash) ELSE Incomplete

\* decode_hex_: a run of hexadecimal digits that makes a hash
decode_hex_(b) ==
    try_parse(take_while1(b, HexDigits), LAMBDA r :
        hash_or_incomplete(r.rest, Hash_from_hex(r.val)))

\* nom_parse_parent: "parent " hex "\n"
nom_parse_parent(b) ==
    try_parse(nom_tag(b, S_parent_sp), LAMBDA t :
    try_parse(decode_hex_(t.rest), LAMBDA cr :
    try_parse(nom_tag(cr.rest, <<10>>), LAMBDA nl :
        Done(nl.rest, cr.val))))

\* Decoder for Parents: parent lines while they parse
RECURSIVE Parents_decode_loop(_, _)
Parents_decode_loop(i, parents) ==
    if_done(nom_parse_parent(i), Done(i, parents), LAMBDA r :
        Parents_decode_loop(r.rest, Append(parents, r.val)))

Parents_decode(b) == Parents_decode_loop(b, <<>>)

\* Display for Commit: one "parent <hex>\n" line per parent, in order
RECURSIVE Parents_display(_)
Parents_display(ps) ==
    IF ps = <<>> THEN <<>>
    ELSE S_parent_sp \o to_hexadecimal(Head(ps)) \o <<10>> \o Parents_display(Tail(ps))

\* parse_digit_i64 / parse_digit_i32: a run of digits as a number
parse_digit(b) ==
    if_done(take_while1(b, Digits), IError, LAMBDA r : Done(r.rest, FromDec(r.val, 0)))

\* parse_time_zone_sign: "+" east, "-" west, no sign east
parse_time_zone_sign(b) ==
    IF b # <<>> /\ Head(b) = 43 THEN Done(Tail(b), TRUE)
    ELSE IF b # <<>> /\ Head(b) = 45 THEN Done(Tail(b), FALSE)
    ELSE Done(b, TRUE)

\* FixedOffset::east / west: seconds east of UTC; out of a day's range panics
FixedOffset(secs) == IF secs > -86400 /\ secs < 86400 THEN Ok(secs) ELSE Panic

\* hhmm in seconds: h * 3600 + m * 60
hhmm_seconds(n) == (n \div 100) * 3600 + (n % 100) * 60

\* the offset that was made, or the panic of making it
offset_made(rest, fo) == IF fo.tag = "Panic" THEN Panic ELSE Done(rest, fo.val)

\* nom_parse_timezone: sign, then hhmm read as one number
nom_parse_timezone(b) ==
    try_parse(parse_time_zone_sign(b), LAMBDA sg :
    try_parse(parse_digit(sg.rest), LAMBDA fmt :
        offset_made(fmt.rest, FixedOffset(IF sg.val THEN hhmm_seconds(fmt.val)
                                                    ELSE 0 - hhmm_seconds(fmt.val)))))

\* a Date: seconds since the epoch and the offset of its time zone
DateOf(time, offset) == [time |-> time, offset |-> offset]

\* nom_parse_date: seconds, space, time zone
nom_parse_date(b) ==
    try_parse(parse_digit(b), LAMBDA time :
    try_parse(nom_tag(time.rest, <<32>>), LAMBDA sp :
    try_parse(nom_parse_timezone(sp.rest), LAMBDA tz :
        Done(tz.rest, DateOf(time.val, tz.val)))))

\* two decimal digits ({:02})
TwoDigits(n) == IF n < 10 THEN <<48>> \o ToDec(n) ELSE ToDec(n)

\* format!("{}", n) for an i64
SignedDec(n) == IF n < 0 THEN <<45>> \o ToDec(0 - n) ELSE ToDec(n)

\* Date::encode_for_obj: format("%s %z"), the offset as sign, hours, minutes
encode_for_obj(d) ==
    LET off == IF d.offset < 0 THEN 0 - d.offset ELSE d.offset IN
    SignedDec(d.time) \o <<32>> \o (IF d.offset < 0 THEN <<45>> ELSE <<43>>)
        \o TwoDigits((off \div 60) \div 60) \o TwoDigits((off \div 60) % 60)

\* Encoder for Date
Date_encode(d) == Ok(encode_for_obj(d))

\* Decoder for Date
Date_decode(b) == nom_parse_date(b)

\* the Date of object/elements/date.rs: minutes east of UTC, seconds elapsed
ElementsDate(tz, elapsed) == [tz |-> tz, elapsed |-> elapsed]

\* nom_parse_date of object/elements/date.rs
elements_nom_parse_date(b) ==
    try_parse(parse_digit(b), LAMBDA time :
    try_parse(nom_tag(time.rest, <<32>>), LAMBDA sp :
    try_parse(parse_time_zone_sign(sp.rest), LAMBDA sg :
    try_parse(parse_digit(sg.rest), LAMBDA fmt :
        Done(fmt.rest, ElementsDate((IF sg.val THEN 1 ELSE -1)
                                        * ((fmt.val \div 100) * 60 + (fmt.val % 100)),
                                    time.val))))))

\* Writable for Date (object/elements/date.rs): serialise
Date_serialise(d) ==
    LET r == IF d.tz < 0 THEN 0 - d.tz ELSE d.tz
        h == r \div 60
        m == r % 60
    IN
    Ok(SignedDec(d.elapsed) \o <<32>> \o (IF d.tz < 0 THEN <<45>> ELSE <<43>>)
           \o (IF h < 10 THEN <<48>> ELSE <<>>) \o ToDec(h * 100 + m))

PersonOf(name, email, date) == [name |-> name, email |-> email, date |-> date]

\* map_res!(.., str::from_utf8): an Error when the bytes are not UTF-8
utf8_or_error(r) == IF r.tag = "Done" /\ ~IsUtf8(r.val) THEN IError ELSE r

\* nom_parse_person: name up to " <", email up to "> ", date
nom_parse_person(b) ==
    try_parse(utf8_or_error(take_until_and_consume(b, <<32, 60>>)), LAMBDA name :
    try_parse(utf8_or_error(take_until_and_consume(name.rest, <<62, 32>>)), LAMBDA email :
    try_parse(nom_parse_date(email.rest), LAMBDA date :
        Done(date.rest, PersonOf(name.val, email.val, date.val)))))

\* Display for Person
Person_display(p) == p.name \o <<32, 60>> \o p.email \o <<62, 32>> \o encode_for_obj(p.date)

\* is_valid_encoding_char: alphanumeric, space, tab, '-', '_'
EncodingChars ==
    {c \in 0..255 : IsDigit(c) \/ (c >= 65 /\ c <= 90) \/ (c >= 97 /\ c <= 122)
                        \/ c \in {32, 9, 45, 95}}

\* parse_string_eol
parse_string_eol(b) == take_while1(b, EncodingChars)

\* opt!(chain!(nom_parse_encoding ~ char!('\n'))): Some, or None on an error
opt_encoding(b) ==
    opt_step(nom_tag(b, S_encoding_sp), Done(b, None), LAMBDA t :
    opt_step(parse_string_eol(t.rest), Done(b, None), LAMBDA e :
    opt_step(nom_char(e.rest, 10), Done(b, None), LAMBDA nl :
        Done(nl.rest, Some(e.val)))))

\* BTreeMap::insert: keys in ascending order, a key already there gets the
\* new value
RECURSIVE BTreeMap_insert(_, _, _)
BTreeMap_place(m, k, v, ord) ==
    IF ord < 0 THEN <<[key |-> k, value |-> v]>> \o m
    ELSE IF ord = 0 THEN <<[key |-> k, value |-> v]>> \o Tail(m)
    ELSE <<Head(m)>> \o BTreeMap_insert(Tail(m), k, v)

BTreeMap_insert(m, k, v) ==
    IF m = <<>> THEN <<[key |-> k, value |-> v]>>
    ELSE BTreeMap_place(m, k, v, BytesCmp(k, Head(m).key))

\* the many0! of parse_extra: lines " <text>\n", each appended with its
\* newline to the value
RECURSIVE extra_lines(_, _)
extra_lines(b, acc) ==
    IF b = <<>> THEN Done(b, acc)
    ELSE
        opt_step(nom_char(b, 32), Done(b, acc), LAMBDA sp :
        opt_step(parse_string_eol(sp.rest), Done(b, acc), LAMBDA v :
        opt_step(nom_char(v.rest, 10), Done(b, acc), LAMBDA nl :
            extra_lines(nl.rest, acc \o v.val \o <<10>>))))

\* parse_extra: a key line, then its continuation lines
parse_extra(b) ==
    try_parse(parse_string_eol(b), LAMBDA k :
    try_parse(nom_char(k.rest, 10), LAMBDA nl :
    try_parse(extra_lines(nl.rest, <<>>), LAMBDA ls :
        Done(ls.rest, [key |-> k.val, value |-> ls.val]))))

\* nom_parse_extras: many0! of parse_extra, each put in the map
RECURSIVE nom_parse_extras_loop(_, _)
nom_parse_extras_loop(b, acc) ==
    IF b = <<>> THEN Done(b, acc)
    ELSE
        opt_step(parse_extra(b), Done(b, acc), LAMBDA r :
            nom_parse_extras_loop(r.rest, BTreeMap_insert(acc, r.val.key, r.val.value)))

nom_parse_extras(b) == nom_parse_extras_loop(b, <<>>)

\* str::lines: the pieces between newlines, without a last empty one
RECURSIVE Lines(_, _)
Lines(v, cur) ==
    IF v = <<>> THEN (IF cur = <<>> THEN <<>> ELSE <<cur>>)
    ELSE IF Head(v) = 10 THEN <<cur>> \o Lines(Tail(v), <<>>)
    ELSE Lines(Tail(v), Append(cur, Head(v)))

RECURSIVE ValueLines_display(_)
ValueLines_display(ls) ==
    IF ls = <<>> THEN <<>>
    ELSE <<32>> \o Head(ls) \o <<10>> \o ValueLines_display(Tail(ls))

\* Display for Extras: each key on a line, each line of its value after a space
RECURSIVE Extras_display(_)
Extras_display(m) ==
    IF m = <<>> THEN <<>>
    ELSE Head(m).key \o <<10>> \o ValueLines_display(Lines(Head(m).value, <<>>))
            \o Extras_display(Tail(m))

\* Encoder for Extras: encode writes each key and a newline, then each line
\* of its value after a space and before a newline
RECURSIVE Extras_encode(_)
Extras_encode(m) ==
    IF m = <<>> THEN <<>>
    ELSE Head(m).key \o <<10>> \o ValueLines_display(Lines(Head(m).value, <<>>))
            \o Extras_encode(Tail(m))

\* Display for Commit
Commit_display(c) ==
    S_tree_sp \o to_hexadecimal(c.tree_ref) \o <<10>>
        \o Parents_display(c.parents)
        \o S_author_sp \o Person_display(c.author) \o <<10>>
        \o S_committer_sp \o Person_display(c.committer) \o <<10>>
        \o (IF c.encoding.some THEN S_encoding_sp \o c.encoding.val \o <<10>> ELSE <<>>)
        \o Extras_display(c.extras) \o c.message

\* the header of an object, "<type> <len>\0", before its body
with_header(type_sp, body) == type_sp \o ToDec(Len(body)) \o <<0>> \o body

\* Encoder for Commit: "commit <len>\0" and the text
Commit_encode(c) == Ok(with_header(S_commit_sp, Commit_display(c)))

\* nom_parse_commit_head
nom_parse_commit_head(b) == nom_parse_head(b, S_commit_sp)

\* the lines of a person: author or committer
person_line(b, t) ==
    try_parse(nom_tag(b, t), LAMBDA tg :
    try_parse(nom_parse_person(tg.rest), LAMBDA p :
    try_parse(nom_tag(p.rest, <<10>>), LAMBDA nl :
        Done(nl.rest, p.val))))

\* a parser that takes as the message the bytes up to the length of the
\* header and leaves the others
nom_parse_commit_len(b) ==
    try_parse(nom_parse_commit_head(b), LAMBDA h :
    try_parse(nom_tag(h.rest, S_tree_sp), LAMBDA tt :
    try_parse(decode_hex_(tt.rest), LAMBDA tr :
    try_parse(nom_tag(tr.rest, <<10>>), LAMBDA nl :
    try_parse(Parents_decode(nl.rest), LAMBDA parents :
    try_parse(person_line(parents.rest, S_author_sp), LAMBDA a :
    try_parse(person_line(a.rest, S_committer_sp), LAMBDA c :
    try_parse(opt_encoding(c.rest), LAMBDA en :
    try_parse(nom_parse_extras(en.rest), LAMBDA e :
    try_parse(utf8_or_error(Done(<<>>, Take(e.rest, h.val - (Len(h.rest) - Len(e.rest))))), LAMBDA m :
             Done(Drop(e.rest, Len(m.val)),
                  [tree_ref |-> tr.val, parents |-> parents.val, author |-> a.val,
                   committer |-> c.val, encoding |-> en.val, extras |-> e.val,
                   message |-> m.val])))))))))))

\* nom_parse_commit: the length of the header is read and not used
nom_parse_commit(b) ==
    try_parse(nom_parse_commit_head(b), LAMBDA h :
    try_parse(nom_tag(h.rest, S_tree_sp), LAMBDA tt :
    try_parse(decode_hex_(tt.rest), LAMBDA tr :
    try_parse(nom_tag(tr.rest, <<10>>), LAMBDA nl :
    try_parse(Parents_decode(nl.rest), LAMBDA parents :
    try_parse(person_line(parents.rest, S_author_sp), LAMBDA a :
    try_parse(person_line(a.rest, S_committer_sp), LAMBDA c :
    try_parse(opt_encoding(c.rest), LAMBDA en :
    try_parse(nom_parse_extras(en.rest), LAMBDA e :
    try_parse(utf8_or_error(Done(<<>>, e.rest)), LAMBDA m :
             Done(<<>>, [tree_ref |-> tr.val, parents |-> parents.val, author |-> a.val,
                         committer |-> c.val, encoding |-> en.val, extras |-> e.val,
                         message |-> m.val])))))))))))

\* Decoder for Commit
Commit_decode(b) == nom_parse_commit(b)

-----------------------------------------------------------------------------
(* Encoding and decoding Tree and Blob objects (protocol/mod.rs:           *)
(* test_encoder_decoder, test_decode_encode).                              *)

S_a_nul_b == <<97, 0, 98>>      \* "a\0b"
S_not_utf8 == <<255>>

\* the entries of the trees that are encoded: plain names, the empty name, a
\* name holding a NUL, a name that is not UTF-8
ValueEntries ==
    {TreeEntBlob(default_file, S_a, HashB1C0),
     TreeEntTree(default_dir, S_a_dot_b, HashB2AA),
     TreeEntBlob(default_exe, <<>>, HashB1C7),
     TreeEntBlob(default_file, S_a_nul_b, HashB1C0),
     TreeEntBlob(default_file, S_not_utf8, Hash0A1B)}

\* an encoded tree holds at most this many entries
MaxTreeEntries == 2

\* the Tree values: what extend builds from any sequence of entries
TreeValues ==
    {BTreeSet_extend(<<>>, es) : es \in UNION {[1..k -> ValueEntries] : k \in 0..MaxTreeEntries}}

\* the Blob values: empty, text, a NUL, bytes that look like a header
BlobValues == {<<>>, S_a, <<0>>, S_blob_sp \o <<49, 0, 97>>, <<255, 10>>}

\* entries as they may stand in the bytes of a tree object: a file and a
\* directory as git writes them ("40000"), a second entry of name "a", a mode
\* with a digit that is no permission, a name ordered by '.' against '/'
WireEntries ==
    {<<49, 48, 48, 54, 52, 52, 32>> \o S_a \o <<0>> \o HashB1C0,
     <<52, 48, 48, 48, 48, 32>> \o S_a \o <<0>> \o HashB2AA,
     <<49, 48, 48, 54, 52, 52, 32>> \o S_a_dot_b \o <<0>> \o HashB1C7,
     <<49, 48, 48, 54, 56, 57, 32>> \o S_a_slash_b \o <<0>> \o Hash0A1B}

\* a decoded tree object holds at most this many entries
MaxWireEntries == 2

RECURSIVE Flatten(_)
Flatten(ss) == IF ss = <<>> THEN <<>> ELSE Head(ss) \o Flatten(Tail(ss))

WireBodies == {Flatten(es) : es \in UNION {[1..k -> WireEntries] : k \in 0..MaxWireEntries}}

\* what follows the entries: nothing, a stray byte, an entry cut in its hash
WireTails == {<<>>, <<120>>, <<49, 48, 48, 54, 52, 52, 32, 122, 0, 1, 2, 3>>}

\* the bytes given to Tree::decode: the header's length is the length of the
\* payload, or 0, or written with a leading zero
TreeInputs ==
    {S_tree_sp \o len \o <<0>> \o body \o tail :
        len \in UNION {{ToDec(Len(body) + Len(tail)), <<48>>, <<48>> \o ToDec(Len(body) + Len(tail))} :
                            body \in WireBodies, tail \in WireTails},
        body \in WireBodies, tail \in WireTails}

-----------------------------------------------------------------------------
(* Pack indexes (fs/pack/index.rs) and raw hashes (protocol/hash.rs).      *)

\* decode_bytes_: &i[..size] is a slice index out of range on a short input;
\* from_bytes of size bytes is always Some
decode_bytes(i) ==
    IF Len(i) < DIGEST_SIZE THEN Panic
    ELSE Done(Drop(i, DIGEST_SIZE), Take(i, DIGEST_SIZE))

\* the number four big-endian bytes stand for; the counts of the model stay
\* below 2^31
U32Val(b) == ((b[1] * 256 + b[2]) * 256 + b[3]) * 256 + b[4]

\* u32!(nom::Endianness::Big), the value kept as its four bytes
be_u32(i) == IF Len(i) < 4 THEN Incomplete ELSE Done(Drop(i, 4), Take(i, 4))

\* v as usize: eight bytes, the high four zero
as_usize(v) == <<0, 0, 0, 0>> \o v

\* u64!(nom::Endianness::Big) mapped with v as usize
be_u64(i) == IF Len(i) < 8 THEN Incomplete ELSE Done(Drop(i, 8), Take(i, 8))

FANOUT_COUNT == 256

\* count_fixed!(u32, nom_parse_index_header_fanaout, 256): 256 times four
\* bytes, Incomplete when one of them is short; indexed from 0
nom_parse_index_header_fanouts(i) ==
    IF Len(i) < 4 * FANOUT_COUNT THEN Incomplete
    ELSE Done(Drop(i, 4 * FANOUT_COUNT),
              [b \in 0..(FANOUT_COUNT - 1) |-> U32Val(SubSeq(i, 4 * b + 1, 4 * b + 4))])

\* nom_parse_index_header: magic, version, fanouts
nom_parse_index_header(i) ==
    try_parse(be_u32(i), LAMBDA magic :
    try_parse(be_u32(magic.rest), LAMBDA version :
    try_parse(nom_parse_index_header_fanouts(version.rest), LAMBDA fanouts :
        Done(fanouts.rest, [magic |-> magic.val, version |-> version.val,
                            fanouts |-> fanouts.val]))))

\* Header::size
Header_size(header) == header.fanouts[255]

\* Header::numbers_with_prefix
numbers_with_prefix(header, n) ==
    IF n = 0 THEN header.fanouts[0] ELSE header.fanouts[n] - header.fanouts[n - 1]

\* count!(H::decode_bytes, n)
RECURSIVE count_decode_bytes(_, _, _)
count_decode_bytes(i, n, acc) ==
    IF n = 0 THEN Done(i, acc)
    ELSE try_parse(decode_bytes(i), LAMBDA r :
            count_decode_bytes(r.rest, n - 1, Append(acc, r.val)))

\* count!(u32!(nom::Endianness::Big), n)
RECURSIVE count_u32(_, _, _)
count_u32(i, n, acc) ==
    IF n = 0 THEN Done(i, acc)
    ELSE try_parse(be_u32(i), LAMBDA r : count_u32(r.rest, n - 1, Append(acc, r.val)))

\* count!(map!(u32!(nom::Endianness::Big), |v| v as usize), n)
RECURSIVE count_offsets(_, _, _)
count_offsets(i, n, acc) ==
    IF n = 0 THEN Done(i, acc)
    ELSE try_parse(be_u32(i), LAMBDA r :
            count_offsets(r.rest, n - 1, Append(acc, as_usize(r.val))))

\* (*offset as u32) & 0x80000000 != 0
high_bit_set(offset) == offset[5] >= 128

\* the loop over offsets of parse_index: an offset with the high bit set is
\* replaced by the next eight bytes of the input
RECURSIVE large_offsets(_, _, _)
large_offsets(i, offsets, k) ==
    IF k > Len(offsets) THEN Done(i, offsets)
    ELSE IF high_bit_set(offsets[k])
    THEN try_parse(be_u64(i), LAMBDA r :
            large_offsets(r.rest, [offsets EXCEPT ![k] = r.val], k + 1))
    ELSE large_offsets(i, offsets, k + 1)

\* Index::new
Index_new(header, hashes, crcs, offsets, pack, index) ==
    [header |-> header, hashes |-> hashes, crcs |-> crcs, offsets |-> offsets,
     pack |-> pack, index |-> index]

\* parse_index
parse_index(i) ==
    try_parse(nom_parse_index_header(i), LAMBDA header :
    try_parse(count_decode_bytes(header.rest, Header_size(header.val), <<>>), LAMBDA hashes :
    try_parse(count_u32(hashes.rest, Header_size(header.val), <<>>), LAMBDA crcs :
    try_parse(count_offsets(crcs.rest, Header_size(header.val), <<>>), LAMBDA offsets :
    try_parse(large_offsets(offsets.rest, offsets.val, 1), LAMBDA larges :
    try_parse(decode_bytes(larges.rest), LAMBDA pack :
    try_parse(decode_bytes(pack.rest), LAMBDA index :
        Done(index.rest, Index_new(header.val, hashes.val, crcs.val, larges.val,
                                   pack.val, index.val)))))))))

\* the filter of lookup_hash on the hashes of one index: every hash is tested
\* with is_prefix_of, the ones that pass are kept
filter_hashes(index, prefix) ==
    [found |-> FilterSeq(index.hashes, prefix), examined |-> 1..Len(index.hashes)]

Encode(kind, v) ==
    CASE kind = "tree" -> Tree_encode(v)
      [] kind = "blob" -> Blob_encode(v)
      [] kind = "commit" -> Commit_encode(v)
      [] kind = "date" -> Date_encode(v)
      [] kind = "permissions" -> Ok(Permissions_display(v))
      [] kind = "tree_ent" -> IF IsUtf8(v.name) THEN Ok(TreeEnt_encode(v)) ELSE Panic
      [] kind = "elements_date" -> Date_serialise(v)
      [] kind = "extras" -> Ok(Extras_encode(v))

Decode(kind, b) ==
    CASE kind = "tree" -> Tree_decode(b)
      [] kind = "blob" -> Blob_decode(b)
      [] kind = "commit" -> Commit_decode(b)
      [] kind = "date" -> Date_decode(b)
      [] kind = "permissions" -> tree_ent_parse_permissions(b)
      [] kind = "tree_ent" -> TreeEnt_decode(b)
      [] kind = "elements_date" -> elements_nom_parse_date(b)
      [] kind = "extras" -> nom_parse_extras(b)
      [] kind = "index" -> parse_index(b)
      [] kind = "hash" -> decode_bytes(b)

\* test_encoder_decoder: t.encode(&mut v)
EncodeValue ==
    /\ io.phase = "value"
    /\ io' = [io EXCEPT !.phase = "encoded", !.out = Encode(io.kind, io.value)]
    /\ UNCHANGED <<files, walk, disk, fsres, tree, last>>

\* test_encoder_decoder: T::decode(v.as_slice())
DecodeWritten ==
    /\ io.phase = "encoded"
    /\ io.out.tag = "Ok"
    /\ io' = [io EXCEPT !.phase = "redecoded", !.result = Decode(io.kind, io.out.val)]
    /\ UNCHANGED <<files, walk, disk, fsres, tree, last>>

\* test_decode_encode: T::decode(data.as_slice())
DecodeBytes ==
    /\ io.phase = "bytes"
    /\ io' = [io EXCEPT !.phase = "decoded", !.result = Decode(io.kind, io.input)]
    /\ UNCHANGED <<files, walk, disk, fsres, tree, last>>

\* test_decode_encode: t.encode(&mut v)
EncodeDecoded ==
    /\ io.phase = "decoded"
    /\ io.result.tag = "Done"
    /\ io' = [io EXCEPT !.phase = "reencoded", !.out = Encode(io.kind, io.result.val)]
    /\ UNCHANGED <<files, walk, disk, fsres, tree, last>>

\* a value to encode, or bytes to decode
InitCodec ==
    /\ \/ \E t \in TreeValues : io = [IoIdle EXCEPT !.phase = "value", !.kind = "tree", !.value = t]
       \/ \E d \in BlobValues : io = [IoIdle EXCEPT !.phase = "value", !.kind = "blob", !.value = d]
       \/ \E b \in TreeInputs : io = [IoIdle EXCEPT !.phase = "bytes", !.kind = "tree", !.input = b]
    /\ files = <<>>
    /\ walk = WalkIdle
    /\ disk = DiskIdle
    /\ fsres = FsIdle
    /\ tree = <<>>
    /\ last = LastIdle

NextCodec == EncodeValue \/ DecodeWritten \/ DecodeBytes \/ EncodeDecoded

SpecCodec == InitCodec /\ [][NextCodec]_vars

-----------------------------------------------------------------------------
(* Decoding and re-encoding Commit objects (commit.rs: regression_test).   *)

\* the hexadecimal digits a..f written in upper case
UpperHex(s) == [i \in 1..Len(s) |-> IF s[i] >= 97 THEN s[i] - 32 ELSE s[i]]

\* "tree <hex>\n", the hash in lower or in upper case
TreeLines ==
    {S_tree_sp \o to_hex(HashB1C0) \o <<10>>,
     S_tree_sp \o UpperHex(to_hex(HashB1C0)) \o <<10>>}

\* no parent, or two parent lines
ParentBlocks ==
    {<<>>,
     S_parent_sp \o to_hex(HashB2AA) \o <<10>> \o S_parent_sp \o to_hex(Hash0A1B) \o <<10>>}

\* the dates of the author: "7 +0100", "7 -0000", "07 0100", "7 +0190", "7 -0130"
AuthorDates ==
    {<<55, 32, 43, 48, 49, 48, 48>>, <<55, 32, 45, 48, 48, 48, 48>>,
     <<48, 55, 32, 48, 49, 48, 48>>, <<55, 32, 43, 48, 49, 57, 48>>,
     <<55, 32, 45, 48, 49, 51, 48>>}

\* "author A <a@b> <date>\n"
AuthorLines ==
    {S_author_sp \o <<65, 32, 60, 97, 64, 98, 62, 32>> \o d \o <<10>> : d \in AuthorDates}

\* "committer C <c> 12 +0000\n"
CommitterLine ==
    S_committer_sp \o <<67, 32, 60, 99, 62, 32, 49, 50, 32, 43, 48, 48, 48, 48>> \o <<10>>

\* no encoding, or "encoding UTF-8\n"
EncodingBlocks == {<<>>, S_encoding_sp \o <<85, 84, 70, 45, 56>> \o <<10>>}

\* the extra headers: none; "a" with the line "b"; "b" then "a"; "a" twice
ExtrasBlocks ==
    {<<>>,
     <<97, 10, 32, 98, 10>>,
     <<98, 10, 97, 10>>,
     <<97, 10, 32, 120, 10, 97, 10, 32, 121, 10>>}

\* what is left: nothing, a blank line, a blank line and "msg\n"
Messages == {<<>>, <<10>>, <<10, 109, 115, 103, 10>>}

\* the text of a commit object
CommitBodies ==
    {t \o p \o a \o CommitterLine \o e \o x \o m :
        t \in TreeLines, p \in ParentBlocks, a \in AuthorLines, e \in EncodingBlocks,
        x \in ExtrasBlocks, m \in Messages}

\* the bytes given to Commit::decode: the header carries the length of the
\* text, or 0
CommitInputs ==
    UNION {{S_commit_sp \o ToDec(Len(body)) \o <<0>> \o body,
            S_commit_sp \o <<48, 0>> \o body} : body \in CommitBodies}

\* bytes to decode as a commit
InitCommit ==
    /\ \E b \in CommitInputs : io = [IoIdle EXCEPT !.phase = "bytes", !.kind = "commit", !.input = b]
    /\ files = <<>>
    /\ walk = WalkIdle
    /\ disk = DiskIdle
    /\ fsres = FsIdle
    /\ tree = <<>>
    /\ last = LastIdle

NextCommit == DecodeBytes \/ EncodeDecoded

SpecCommit == InitCommit /\ [][NextCommit]_vars

-----------------------------------------------------------------------------
(* Claims about the Tree and Blob codecs.                                  *)

\* C4: when Tree::decode accepts b with an empty remainder, encoding the
\* decoded tree writes exactly b.
C4_DecodeEncodeSame ==
    (io.phase = "reencoded" /\ io.kind = "tree" /\ io.result.rest = <<>>) =>
        io.out = Ok(io.input)

\* C5: decoding the bytes written for a Tree or Blob value returns Done with
\* that value and an empty remainder; the empty tree is written as "tree 0\0".
C5_EncodeDecodeSame ==
    /\ io.phase = "redecoded" => io.result = Done(<<>>, io.value)
    /\ (io.phase = "encoded" /\ io.kind = "tree" /\ io.value = <<>>) =>
        io.out = Ok(<<116, 114, 101, 101, 32, 48, 0>>)

\* C3: when Commit::decode accepts b, encoding the decoded commit writes
\* exactly b, header included.
C3_CommitDecodeEncodeSame ==
    (io.phase = "reencoded" /\ io.kind = "commit") => io.out = Ok(io.input)

-----------------------------------------------------------------------------
(* Hashes and partial hashes from text and bytes (protocol/hash.rs).       *)

\* Hash for Partial: from_bytes, up to a digest of bytes, kept as lowercase hex
Partial_from_bytes(b) ==
    IF Len(b) <= DIGEST_SIZE THEN [some |-> TRUE, hex |-> to_hex(b)]
    ELSE [some |-> FALSE, hex |-> <<>>]

HashData == {HashB1C0, HashB1C7, HashB2AA, Hash0A1B}

S_zz == <<122, 122>>            \* "zz"
S_b1g == <<98, 49, 103>>        \* "b1g"

\* the texts given to from_hex: every prefix of the hexadecimal form of the
\* hashes, in lower and in upper case, with a space after it, with two more
\* digits, and texts that are not hexadecimal
HexTexts ==
    {Take(to_hex(h), n) : h \in HashData, n \in 0..(2 * DIGEST_SIZE)}
        \cup {UpperHex(Take(to_hex(h), n)) : h \in HashData, n \in 1..(2 * DIGEST_SIZE)}
        \cup {to_hex(h) \o <<32>> : h \in HashData}
        \cup {to_hex(h) \o <<48, 48>> : h \in HashData}
        \cup {S_zz, S_b1g}

\* the byte vectors given to from_bytes: shorter than, as long as and longer
\* than a digest
ByteVectors ==
    {Take(h, n) : h \in HashData, n \in {0, 1, DIGEST_SIZE - 1, DIGEST_SIZE}}
        \cup {h \o <<0>> : h \in HashData}

\* SHA1::from_hex(s)
SHA1FromHex ==
    /\ io.phase = "text"
    /\ io' = [io EXCEPT !.phase = "sha1_from_hex", !.result = Hash_from_hex(io.input)]
    /\ UNCHANGED <<files, walk, disk, fsres, tree, last>>

\* Partial::<SHA1>::from_hex(s)
PartialFromHex ==
    /\ io.phase = "text"
    /\ io' = [io EXCEPT !.phase = "partial_from_hex", !.result = Partial_from_hex(io.input)]
    /\ UNCHANGED <<files, walk, disk, fsres, tree, last>>

\* prefix.is_prefix_of(&sha1)
IsPrefixOf ==
    /\ io.phase = "partial_from_hex"
    /\ io.result.some
    /\ io' = [io EXCEPT !.phase = "is_prefix_of", !.out = Ok(is_prefix_of(io.result, io.value))]
    /\ UNCHANGED <<files, walk, disk, fsres, tree, last>>

\* SHA1::from_bytes(v)
SHA1FromBytes ==
    /\ io.phase = "vector"
    /\ io' = [io EXCEPT !.phase = "sha1_from_bytes", !.result = SHA1_from_bytes(io.input)]
    /\ UNCHANGED <<files, walk, disk, fsres, tree, last>>

\* Partial::<SHA1>::from_bytes(v)
PartialFromBytes ==
    /\ io.phase = "vector"
    /\ io' = [io EXCEPT !.phase = "partial_from_bytes", !.result = Partial_from_bytes(io.input)]
    /\ UNCHANGED <<files, walk, disk, fsres, tree, last>>

\* a hash and a text, or a byte vector
InitHash ==
    /\ \/ \E h \in HashData, s \in HexTexts :
             io = [IoIdle EXCEPT !.phase = "text", !.kind = "hash", !.value = h, !.input = s]
       \/ \E v \in ByteVectors :
             io = [IoIdle EXCEPT !.phase = "vector", !.kind = "hash", !.input = v]
    /\ files = <<>>
    /\ walk = WalkIdle
    /\ disk = DiskIdle
    /\ fsres = FsIdle
    /\ tree = <<>>
    /\ last = LastIdle

NextHash == SHA1FromHex \/ PartialFromHex \/ IsPrefixOf \/ SHA1FromBytes \/ PartialFromBytes

SpecHash == InitHash /\ [][NextHash]_vars

-----------------------------------------------------------------------------
(* Claims about hashes and partial hashes.                                 *)

AllHexDigits(s) == \A i \in 1..Len(s) : IsHexDigit(s[i])

\* C11: a non-empty prefix of the hexadecimal form of h makes a Partial that
\* is a prefix of h, and a hexadecimal text that is not a prefix of that form
\* makes one that is not.
C11_PrefixMatches ==
    /\ (io.phase = "partial_from_hex" /\ io.input # <<>> /\ HasHexPrefix(io.input, io.value))
            => io.result.some
    /\ (io.phase = "is_prefix_of" /\ io.input # <<>> /\ AllHexDigits(io.input))
            => io.out = Ok(HasHexPrefix(io.input, io.value))

\* an odd number of digits of b1c0.. is found to be a prefix of it
C11_Witness ==
    /\ io.phase = "is_prefix_of"
    /\ io.value = HashB1C0
    /\ io.input = Take(to_hex(HashB1C0), 7)
    /\ io.out = Ok(TRUE)

\* a text in upper case written in lower case
LowerCase(s) == [i \in 1..Len(s) |-> IF s[i] >= 65 /\ s[i] <= 90 THEN s[i] + 32 ELSE s[i]]

\* C12: is_prefix_of gives for a prefix what it gives for the same prefix
\* written in lower case.
C12_CaseNormalized ==
    io.phase = "is_prefix_of" =>
        io.out = Ok(is_prefix_of(Partial_from_hex(LowerCase(io.input)), io.value))

\* C13: from_hex is None for a text with a character that is not a
\* hexadecimal digit or with more than digest_hex_size characters, and
\* from_bytes is None for a vector that is not digest_size long (for a
\* Partial: longer than digest_size).
C13_BadInputIsNone ==
    /\ (io.phase \in {"sha1_from_hex", "partial_from_hex"}
            /\ (~AllHexDigits(io.input) \/ Len(io.input) > 2 * DIGEST_SIZE))
            => ~io.result.some
    /\ (io.phase = "sha1_from_bytes" /\ Len(io.input) # DIGEST_SIZE) => ~io.result.some
    /\ (io.phase = "partial_from_bytes" /\ Len(io.input) > DIGEST_SIZE) => ~io.result.some

-----------------------------------------------------------------------------
(* Encoding and decoding dates (object/date.rs: date_serialisable;         *)
(* object/elements/date.rs).                                               *)

\* seconds since the epoch
DateTimes == {0, 7, 1480007832, -5}

\* offsets of whole minutes, in seconds east of UTC
DateOffsets == {0, 1800, -1800, 3600, -3600, 19800, -34200, 50400}

DateValues == {DateOf(t, o) : t \in DateTimes, o \in DateOffsets}

ElementsDateValues == {ElementsDate(o \div 60, t) : t \in DateTimes, o \in DateOffsets}

S_minus5_utc == <<45, 53, 32, 43, 48, 48, 48, 48>>           \* "-5 +0000"
S_minus5_west == <<45, 53, 32, 45, 48, 49, 51, 48>>          \* "-5 -0130"
S_7_plus0100 == <<55, 32, 43, 48, 49, 48, 48>>               \* "7 +0100"
S_7_0100 == <<55, 32, 48, 49, 48, 48>>                       \* "7 0100"
S_7_plus9999 == <<55, 32, 43, 57, 57, 57, 57>>               \* "7 +9999"
S_7plus0100 == <<55, 43, 48, 49, 48, 48>>                    \* "7+0100"

DateInputs == {S_minus5_utc, S_minus5_west, S_7_plus0100, S_7_0100, S_7_plus9999, S_7plus0100}

InitDate ==
    /\ \/ \E d \in DateValues : io = [IoIdle EXCEPT !.phase = "value", !.kind = "date", !.value = d]
       \/ \E d \in ElementsDateValues :
             io = [IoIdle EXCEPT !.phase = "value", !.kind = "elements_date", !.value = d]
       \/ \E b \in DateInputs, k \in {"date", "elements_date"} :
             io = [IoIdle EXCEPT !.phase = "bytes", !.kind = k, !.input = b]
    /\ files = <<>>
    /\ walk = WalkIdle
    /\ disk = DiskIdle
    /\ fsres = FsIdle
    /\ tree = <<>>
    /\ last = LastIdle

SpecDate == InitDate /\ [][NextCodec]_vars

-----------------------------------------------------------------------------
(* Claims about dates.                                                     *)

\* the seconds and the offset in minutes of a date of either kind
SecondsOf(k, d) == IF k = "date" THEN d.time ELSE d.elapsed
MinutesOf(k, d) == IF k = "date" THEN d.offset \div 60 ELSE d.tz
Magnitude(n) == IF n < 0 THEN 0 - n ELSE n

\* "<seconds> ", a sign, and the four digits HHMM of an offset in minutes
DateText(secs, mins) ==
    SignedDec(secs) \o <<32>> \o (IF mins < 0 THEN <<45>> ELSE <<43>>)
        \o << 48 + ((Magnitude(mins) \div 60) \div 10), 48 + ((Magnitude(mins) \div 60) % 10),
              48 + ((Magnitude(mins) % 60) \div 10), 48 + ((Magnitude(mins) % 60) % 10) >>

\* C14: a date is written as its seconds, a space, a sign and four digits
\* HHMM, and decoding what was written gives the date back.
C14_DateRoundTrip ==
    (io.kind \in {"date", "elements_date"} /\ io.phase \in {"encoded", "redecoded"}) =>
        /\ io.out = Ok(DateText(SecondsOf(io.kind, io.value), MinutesOf(io.kind, io.value)))
        /\ io.phase = "redecoded" => io.result = Done(<<>>, io.value)

\* C15: a text whose seconds are negative decodes to the date with those
\* seconds, and that date is written as the same text.
C15_NegativeSeconds ==
    (io.kind = "date" /\ io.input \in {S_minus5_utc, S_minus5_west}) =>
        /\ io.phase \in {"decoded", "reencoded"} =>
              /\ io.result.tag = "Done"
              /\ io.result.val.time = -5
        /\ io.phase = "reencoded" => io.out = Ok(io.input)

-----------------------------------------------------------------------------
(* Encoding and decoding Permissions and tree entries (object/tree.rs).    *)

PermissionNames == {"Read", "Write", "Executable"}

\* the 512 Permissions
PermissionValues ==
    {Permissions(u, g, o) : u \in SUBSET PermissionNames, g \in SUBSET PermissionNames,
                            o \in SUBSET PermissionNames}

S_0644 == <<48, 54, 52, 52>>        \* "0644"
S_0755 == <<48, 55, 53, 53>>        \* "0755"
S_0189 == <<48, 49, 56, 57>>        \* "0189"
S_644 == <<54, 52, 52>>             \* "644"
S_06 == <<48, 54>>                  \* "06"

PermissionInputs == {S_0644, S_0755, S_0189, S_644, S_06}

EntryValues ==
    {TreeEntBlob(perm, name, HashB1C0) :
        perm \in {default_file, default_dir, default_exe}, name \in {S_a, S_a_dot_b}}
        \cup {TreeEntTree(perm, name, HashB2AA) :
                perm \in {default_file, default_dir, default_exe}, name \in {S_a, S_a_dot_b}}

\* entries as they are in a tree object, one with the type "12" of a link,
\* and the type digits alone
EntryInputs ==
    WireEntries
        \cup {<<52, 48, 55, 53, 53, 32>> \o S_a \o <<0>> \o HashB2AA,
              <<49, 48, 48, 48, 48, 48, 32>> \o S_a \o <<0>> \o HashB1C0,
              <<49, 50, 48, 48, 48, 48, 32>> \o S_a \o <<0>> \o HashB1C0,
              <<49, 48>>, <<52>>, <<49>>}

InitElements ==
    /\ \/ \E v \in PermissionValues :
             io = [IoIdle EXCEPT !.phase = "value", !.kind = "permissions", !.value = v]
       \/ \E b \in PermissionInputs :
             io = [IoIdle EXCEPT !.phase = "bytes", !.kind = "permissions", !.input = b]
       \/ \E v \in EntryValues :
             io = [IoIdle EXCEPT !.phase = "value", !.kind = "tree_ent", !.value = v]
       \/ \E b \in EntryInputs :
             io = [IoIdle EXCEPT !.phase = "bytes", !.kind = "tree_ent", !.input = b]
    /\ files = <<>>
    /\ walk = WalkIdle
    /\ disk = DiskIdle
    /\ fsres = FsIdle
    /\ tree = <<>>
    /\ last = LastIdle

SpecElements == InitElements /\ [][NextCodec]_vars

-----------------------------------------------------------------------------
(* Claims about Permissions and tree entries.                              *)

\* the digit 4 * Read + 2 * Write + 1 * Executable of a set
OctalDigit(ps) ==
    48 + (IF "Read" \in ps THEN 4 ELSE 0) + (IF "Write" \in ps THEN 2 ELSE 0)
        + (IF "Executable" \in ps THEN 1 ELSE 0)

\* C16: a Permissions value is written as "0" and the digits of user, group
\* and other, and parsing those four characters gives the value back.
C16_PermissionsRoundTrip ==
    (io.kind = "permissions" /\ io.phase \in {"encoded", "redecoded"}) =>
        /\ io.out = Ok(<<48, OctalDigit(io.value.user), OctalDigit(io.value.group),
                         OctalDigit(io.value.other)>>)
        /\ io.phase = "redecoded" => io.result = Done(<<>>, io.value)

\* user write and execute, group read and execute, other execute: "0351"
C16_Witness ==
    /\ io.kind = "permissions"
    /\ io.phase = "redecoded"
    /\ io.value = Permissions({"Write", "Executable"}, {"Read", "Executable"}, {"Executable"})
    /\ io.out = Ok(<<48, 51, 53, 49>>)
    /\ io.result = Done(<<>>, io.value)

\* the kind that the type digits at the start of an entry stand for
KindOfDigits(b) ==
    IF StartsWith(b, <<49, 48>>) THEN "Blob" ELSE IF StartsWith(b, <<52>>) THEN "Tree" ELSE "none"

\* C17: an entry that starts with "10" decodes to a Blob and one that starts
\* with "4" to a Tree; a Blob is written with "10" and a Tree with "4"; the
\* kind is the same after decode and encode, and after encode and decode.
C17_KindFromTypeDigits ==
    io.kind = "tree_ent" =>
        /\ (io.phase \in {"decoded", "reencoded"} /\ io.result.tag = "Done")
                => io.result.val.kind = KindOfDigits(io.input)
        /\ (io.phase = "reencoded" /\ io.out.tag = "Ok")
                => KindOfDigits(io.out.val) = KindOfDigits(io.input)
        /\ (io.phase \in {"encoded", "redecoded"} /\ io.out.tag = "Ok")
                => KindOfDigits(io.out.val) = io.value.kind
        /\ io.phase = "redecoded"
                => (io.result.tag = "Done" /\ io.result.val.kind = io.value.kind)

\* "100644 a\0<hash>" decoded to a Blob and written again with "10"
C17_Witness ==
    /\ io.kind = "tree_ent"
    /\ io.phase = "reencoded"
    /\ StartsWith(io.input, <<49, 48, 48, 54, 52, 52>>)
    /\ io.result.val.kind = "Blob"
    /\ io.out = Ok(io.input)

-----------------------------------------------------------------------------
(* Special references written and read (refs.rs: encode_decode_specref).   *)

S_origin == <<111, 114, 105, 103, 105, 110>>                \* "origin"
S_dev_stage == <<100, 101, 118, 47, 115, 116, 97, 103, 101>> \* "dev/stage"
S_v1_space == <<118, 49, 32>>                               \* "v1 "
S_slash_v1 == <<47, 118, 49>>                               \* "/v1"
S_a_b == <<97, 47, 98>>                                     \* "a/b"
S_other == <<111, 116, 104, 101, 114>>                      \* "other"
S_head == <<104, 101, 97, 100>>                             \* "head"

\* a/b
Slash(a, b) == a \o <<47>> \o b

RefNames == {S_v1, S_dev_stage, S_v1_space, S_slash_v1, S_a_slash, <<46>>}

RemoteNames == {S_origin, S_a_b}

SpecRefValues ==
    {Tag(n) : n \in RefNames} \cup {Branch(n) : n \in RefNames}
        \cup {Patch(n) : n \in RefNames}
        \cup {Remote(r, n) : r \in RemoteNames, n \in RefNames}
        \cup {Stash, HeadRef, OriginHead, FetchHead}

\* paths that name a special reference and paths that do not
SpecRefPaths ==
    {SpecRef_display(v) : v \in SpecRefValues}
        \cup {Slash(S_HEAD, S_v1), Slash(S_FETCH_HEAD, S_v1), Slash(S_ORIG_HEAD, S_v1),
              Slash(Slash(S_refs, S_stash), S_v1), Slash(S_refs, S_tags),
              Slash(S_refs, S_heads), Slash(S_refs, S_remotes),
              Slash(Slash(S_refs, S_remotes), S_origin), Slash(Slash(S_refs, S_other), S_v1),
              S_refs, <<>>, Slash(<<46>>, S_HEAD), Slash(<<>>, S_HEAD), S_head,
              S_HEAD \o <<10>>, Slash(S_v1, S_HEAD), Slash(S_tags, S_v1),
              Slash(Slash(<<46, 46>>, S_refs), S_stash)}

\* format!("{}", &sr)
DisplaySpecRef ==
    /\ io.phase = "specref"
    /\ io' = [io EXCEPT !.phase = "displayed", !.out = Ok(SpecRef_display(io.value))]
    /\ UNCHANGED <<files, walk, disk, fsres, tree, last>>

\* SpecRef::from_str(&s) on what was written
ParseDisplayed ==
    /\ io.phase = "displayed"
    /\ io' = [io EXCEPT !.phase = "parsed", !.result = SpecRef_from_str(io.out.val)]
    /\ UNCHANGED <<files, walk, disk, fsres, tree, last>>

\* SpecRef::from_str on a path
ParsePath ==
    /\ io.phase = "path"
    /\ io' = [io EXCEPT !.phase = "from_str", !.result = SpecRef_from_str(io.input)]
    /\ UNCHANGED <<files, walk, disk, fsres, tree, last>>

\* format!("{}", &res) of what was read
DisplayParsed ==
    /\ io.phase = "from_str"
    /\ io.result.tag = "Ok"
    /\ io' = [io EXCEPT !.phase = "shown", !.out = Ok(SpecRef_display(io.result.val))]
    /\ UNCHANGED <<files, walk, disk, fsres, tree, last>>

InitNames ==
    /\ \/ \E v \in SpecRefValues :
             io = [IoIdle EXCEPT !.phase = "specref", !.kind = "specref", !.value = v]
       \/ \E b \in SpecRefPaths :
             io = [IoIdle EXCEPT !.phase = "path", !.kind = "specref", !.input = b]
    /\ files = <<>>
    /\ walk = WalkIdle
    /\ disk = DiskIdle
    /\ fsres = FsIdle
    /\ tree = <<>>
    /\ last = LastIdle

NextNames == DisplaySpecRef \/ ParseDisplayed \/ ParsePath \/ DisplayParsed

SpecNames == InitNames /\ [][NextNames]_vars

-----------------------------------------------------------------------------
(* Claims about special references.                                        *)

\* the path the claim gives for each special reference
Projection(r) ==
    CASE r.kind = "Tag" -> Slash(Slash(S_refs, S_tags), r.a)
      [] r.kind = "Branch" -> Slash(Slash(S_refs, S_heads), r.a)
      [] r.kind = "Remote" -> Slash(Slash(Slash(S_refs, S_remotes), r.a), r.b)
      [] r.kind = "Patch" -> Slash(Slash(S_refs, S_patches), r.a)
      [] r.kind = "Stash" -> Slash(S_refs, S_stash)
      [] r.kind = "Head" -> S_HEAD
      [] r.kind = "OriginHead" -> S_ORIG_HEAD
      [] r.kind = "FetchHead" -> S_FETCH_HEAD

\* equality of special references: the names compared as paths
SpecRefEq(x, y) == x.kind = y.kind /\ PathCmp(x.a, y.a) = 0 /\ PathCmp(x.b, y.b) = 0

\* the names a kind of special reference has are not empty
NamesNotEmpty(r) ==
    /\ r.kind \in {"Tag", "Branch", "Patch", "Remote"} => r.a # <<>>
    /\ r.kind = "Remote" => r.b # <<>>

\* a name made of one or more pieces joined by "/", none of them empty, "."
\* or "..", in ASCII, not ending in white space
PlainRefName(n) ==
    /\ n # <<>>
    /\ \A i \in 1..Len(n) : n[i] < 128
    /\ ~IsWhitespace(n[Len(n)])
    /\ \A i \in 1..Len(SplitSlash(n, <<>>)) :
          SplitSlash(n, <<>>)[i] \notin {<<>>, <<46>>, <<46, 46>>}

\* plain names, the name of a remote being one piece
PlainSpecRef(r) ==
    /\ r.kind \in {"Tag", "Branch", "Patch", "Remote"} => PlainRefName(r.a)
    /\ r.kind = "Remote" => (PlainRefName(r.b) /\ Len(SplitSlash(r.a, <<>>)) = 1)

\* C18 as stated: every special reference with non-empty names is written as
\* its projection, and reading the projection gives the reference back.
C18_RoundTripAll ==
    (io.phase \in {"displayed", "parsed"} /\ NamesNotEmpty(io.value)) =>
        /\ io.out = Ok(Projection(io.value))
        /\ io.phase = "parsed" => (io.result.tag = "Ok" /\ SpecRefEq(io.result.val, io.value))

\* C18 amended: the same for special references with plain names whose
\* remote is named by one piece.
C18_RoundTripPlain ==
    (io.phase \in {"displayed", "parsed"} /\ PlainSpecRef(io.value)) =>
        /\ io.out = Ok(Projection(io.value))
        /\ io.phase = "parsed" => io.result = Ok(io.value)

\* the nested branch dev/stage read back from refs/heads/dev/stage
C18_Witness ==
    /\ io.phase = "parsed"
    /\ io.value = Branch(S_dev_stage)
    /\ io.out = Ok(Slash(Slash(S_refs, S_heads), S_dev_stage))
    /\ io.result = Ok(Branch(S_dev_stage))

\* the pieces of a path that make components, after trim_right
PiecesOf(path) ==
    LET ps == SplitSlash(trim_right(path), <<>>) IN
    [i \in 1..Len(ps) |-> ps[i]]

\* the path has one of the forms that name a special reference
ListedForm(path) ==
    LET ps == PiecesOf(path) IN
    \/ ps \in {<<S_HEAD>>, <<S_ORIG_HEAD>>, <<S_FETCH_HEAD>>, <<S_refs, S_stash>>}
    \/ /\ Len(ps) >= 3
       /\ ps[1] = S_refs
       /\ ps[2] \in {S_tags, S_heads, S_patches}
       /\ \A i \in 3..Len(ps) : ps[i] # <<>>
    \/ /\ Len(ps) >= 4
       /\ ps[1] = S_refs
       /\ ps[2] = S_remotes
       /\ \A i \in 3..Len(ps) : ps[i] # <<>>

\* C19: from_str gives InvalidRef(path) for a path that has none of the
\* listed forms.
C19_OtherPathsInvalid ==
    (io.phase = "from_str" /\ ~ListedForm(io.input)) =>
        io.result = Err("InvalidRef", trim_right(io.input))

-----------------------------------------------------------------------------
(* Claims about the message of a decoded commit.                           *)

\* the bytes after the first blank line of b; the headers have none
AfterBlankLine(b) == Drop(b, FindFrom(b, <<10, 10>>, 1) + 1)

\* C20: after decoding a commit whose headers end with a blank line, the
\* message is exactly the bytes that follow the blank line, the separator not
\* being part of it.
C20_MessageAfterBlankLine ==
    (/\ io.phase = "decoded"
     /\ io.kind = "commit"
     /\ io.result.tag = "Done"
     /\ FindFrom(io.input, <<10, 10>>, 1) # 0) =>
        io.result.val.message = AfterBlankLine(io.input)

-----------------------------------------------------------------------------
(* Encoding and decoding the extra headers of a commit (commit.rs).        *)

S_x_nl == <<120, 10>>                       \* "x\n"
S_x_nl_y_nl == <<120, 10, 121, 10>>         \* "x\ny\n"
S_x == <<120>>                              \* "x"
S_x_nl_nl_y_nl == <<120, 10, 10, 121, 10>>  \* "x\n\ny\n"
S_sp_k == <<32, 107>>                       \* " k"

\* the keys of the extra headers: "a", "b", " k"
ExtraKeys == {S_a, <<98>>, S_sp_k}

\* the values: no line, one line, two lines, a line that does not end, an
\* empty line between two lines
ExtraValues == {<<>>, S_x_nl, S_x_nl_y_nl, S_x, S_x_nl_nl_y_nl}

\* Extras::new_with of a map of at most two keys
ExtrasValues ==
    {<<>>}
        \cup {BTreeMap_insert(<<>>, k, v) : k \in ExtraKeys, v \in ExtraValues}
        \cup {BTreeMap_insert(BTreeMap_insert(<<>>, k[1], v[1]), k[2], v[2]) :
                 k \in {kk \in ExtraKeys \X ExtraKeys : kk[1] # kk[2]},
                 v \in ExtraValues \X ExtraValues}

\* bytes given to nom_parse_extras
ExtrasInputs == ExtrasBlocks \cup {<<97, 10, 32, 120>>, <<10>>}

InitExtras ==
    /\ \/ \E v \in ExtrasValues :
             io = [IoIdle EXCEPT !.phase = "value", !.kind = "extras", !.value = v]
       \/ \E b \in ExtrasInputs :
             io = [IoIdle EXCEPT !.phase = "bytes", !.kind = "extras", !.input = b]
    /\ files = <<>>
    /\ walk = WalkIdle
    /\ disk = DiskIdle
    /\ fsres = FsIdle
    /\ tree = <<>>
    /\ last = LastIdle

SpecExtras == InitExtras /\ [][NextCodec]_vars

-----------------------------------------------------------------------------
(* Claims about the extra headers.                                         *)

\* a text of permitted characters only
PermittedText(t) == \A i \in 1..Len(t) : t[i] \in EncodingChars

\* the keys and the lines of the values use only the permitted characters
PermittedExtras(e) ==
    \A i \in 1..Len(e) :
        /\ e[i].key # <<>>
        /\ PermittedText(e[i].key)
        /\ \A j \in 1..Len(Lines(e[i].value, <<>>)) : PermittedText(Lines(e[i].value, <<>>)[j])

\* C21: the extra headers of permitted characters are written with their keys
\* ascending, each value line after exactly one space, and decoding what was
\* written gives the same extra headers, with as many lines for each key.
C21_ExtrasRoundTrip ==
    (io.kind = "extras" /\ io.phase \in {"encoded", "redecoded"} /\ PermittedExtras(io.value)) =>
        /\ \A i \in 1..Len(io.value), j \in 1..Len(io.value) :
              i < j => BytesCmp(io.value[i].key, io.value[j].key) < 0
        /\ io.out = Ok(Extras_display(io.value))
        /\ io.phase = "redecoded" =>
              /\ io.result = Done(<<>>, io.value)
              /\ \A i \in 1..Len(io.value) :
                    Len(Lines(io.result.val[i].value, <<>>)) = Len(Lines(io.value[i].value, <<>>))

-----------------------------------------------------------------------------
(* Listing the branches, tags and remotes (fs/util.rs, fs/mod.rs).         *)

S_dev == <<100, 101, 118>>          \* "dev"

\* an entry of the walked directory: its path below the walked directory, as
\* names, and what it is
Node(p, k) == [path |-> p, kind |-> k]

\* the entries a directory tree is made of: master, origin, origin/master,
\* origin/dev, origin/dev/v1, and the walked directory itself
TreeNodes ==
    {Node(<<>>, "dir")}
        \cup {Node(<<S_master>>, k) : k \in {"file", "dir", "other"}}
        \cup {Node(<<S_origin>>, k) : k \in {"file", "dir"}}
        \cup {Node(<<S_origin, S_master>>, k) : k \in {"file", "other"}}
        \cup {Node(<<S_origin, S_dev>>, k) : k \in {"file", "dir"}}
        \cup {Node(<<S_origin, S_dev, S_v1>>, "file")}

\* a directory tree: at most one entry for a path, each entry in a directory
IsDirTree(d) ==
    /\ \A n \in d, q \in d : n.path = q.path => n = q
    /\ \A n \in d : n.path # <<>> => Node(Take(n.path, Len(n.path) - 1), "dir") \in d

\* the finite directory trees, and the one where the walked directory is
\* missing
DirTrees == {d \in SUBSET TreeNodes : IsDirTree(d) /\ (d # {} => Node(<<>>, "dir") \in d)}

\* self.refs_dir().join("heads") and the like, as names
WalkedRoot(op) ==
    CASE op = "list_branches" -> <<S_refs, S_heads>>
      [] op = "list_tags" -> <<S_refs, S_tags>>
      [] op = "list_remotes" -> <<S_refs, S_remotes>>

\* Path::strip_prefix
strip_prefix(p, base) ==
    IF Len(base) <= Len(p) /\ Take(p, Len(base)) = base THEN Ok(Drop(p, Len(base)))
    ELSE Err("Other", JoinSlash(p))

\* what is at a path below the walked directory
KindAt(d, rel) ==
    IF \E n \in d : n.path = rel THEN (CHOOSE n \in d : n.path = rel).kind ELSE "none"

\* Path::is_file and Path::is_dir of a path under the walked directory
is_file(d, base, p) == strip_prefix(p, base).tag = "Ok" /\ KindAt(d, strip_prefix(p, base).val) = "file"
is_dir(d, base, p) == strip_prefix(p, base).tag = "Ok" /\ KindAt(d, strip_prefix(p, base).val) = "dir"

\* read_dir: the paths of the entries of a directory
read_dir(d, base, p) ==
    {base \o n.path : n \in {q \in d : Len(q.path) = Len(p) - Len(base) + 1
                                        /\ base \o Take(q.path, Len(q.path) - 1) = p}}

\* the orders in which read_dir may give the entries
Orders(S) == {q \in [1..Cardinality(S) -> S] : \A i, j \in 1..Cardinality(S) : i # j => q[i] # q[j]}

\* the closure given by list_remotes, reading every path as one remote name
make_specref_whole(op, rel) ==
    CASE op = "list_branches" -> Ok(Some(Branch(JoinSlash(rel))))
      [] op = "list_tags" -> Ok(Some(Tag(JoinSlash(rel))))
      [] op = "list_remotes" ->
            IF rel = <<>> THEN Err("InvalidRemote", <<>>)
            ELSE Ok(Some(Remote(JoinSlash(rel), <<>>)))

\* the closures given to get_all_files_in by list_branches, list_tags and
\* list_remotes
make_specref(op, rel) ==
    CASE op = "list_branches" -> Ok(Some(Branch(JoinSlash(rel))))
      [] op = "list_tags" -> Ok(Some(Tag(JoinSlash(rel))))
      [] op = "list_remotes" ->
            IF rel = <<>> THEN Err("InvalidRemote", <<>>)
            ELSE Ok(Some(Remote(Head(rel), JoinSlash(Tail(rel)))))

ListIdle == [pc |-> "idle", op |-> "none", queue |-> <<>>, array |-> <<>>, result |-> NoResult]

\* get_all_files_in up to its loop: the entries of the walked directory are
\* queued, or the error of reading it is returned
get_all_files_in(op) ==
    /\ walk.pc = "idle"
    /\ IF is_dir(disk, WalkedRoot(op), WalkedRoot(op))
       THEN \E q \in Orders(read_dir(disk, WalkedRoot(op), WalkedRoot(op))) :
                walk' = [walk EXCEPT !.pc = "loop", !.op = op, !.queue = q]
       ELSE walk' = [walk EXCEPT !.pc = "returned", !.op = op,
                                 !.result = Err("IoError", JoinSlash(WalkedRoot(op)))]
    /\ UNCHANGED <<files, disk, fsres, tree, last, io>>

list_branches == get_all_files_in("list_branches")
list_tags == get_all_files_in("list_tags")
list_remotes == get_all_files_in("list_remotes")

\* one turn of the loop on a file: its SpecRef is pushed, or the error returned
visit_file(dir) ==
    LET b == strip_prefix(dir, WalkedRoot(walk.op))
        data == make_specref(walk.op, b.val) IN
    IF b.tag = "Err" THEN [walk EXCEPT !.pc = "returned", !.result = b]
    ELSE IF data.tag = "Err" THEN [walk EXCEPT !.pc = "returned", !.result = data]
    ELSE [walk EXCEPT !.queue = Tail(walk.queue),
                      !.array = IF data.val.some THEN Append(walk.array, data.val.val)
                                ELSE walk.array]

\* one turn of the loop of get_all_files_in: the front of the queue is a file,
\* a directory whose entries are queued, or something else
loop_turn ==
    /\ walk.pc = "loop"
    /\ walk.queue # <<>>
    /\ LET dir == Head(walk.queue) IN
       IF is_file(disk, WalkedRoot(walk.op), dir) THEN walk' = visit_file(dir)
       ELSE IF is_dir(disk, WalkedRoot(walk.op), dir)
       THEN \E q \in Orders(read_dir(disk, WalkedRoot(walk.op), dir)) :
                walk' = [walk EXCEPT !.queue = Tail(walk.queue) \o q]
       ELSE walk' = [walk EXCEPT !.queue = Tail(walk.queue)]
    /\ UNCHANGED <<files, disk, fsres, tree, last, io>>

\* the queue is empty: Ok(array)
loop_end ==
    /\ walk.pc = "loop"
    /\ walk.queue = <<>>
    /\ walk' = [walk EXCEPT !.pc = "returned", !.result = Ok(walk.array)]
    /\ UNCHANGED <<files, disk, fsres, tree, last, io>>

InitList ==
    /\ disk \in DirTrees
    /\ walk = ListIdle
    /\ files = <<>>
    /\ fsres = FsIdle
    /\ tree = <<>>
    /\ last = LastIdle
    /\ io = IoIdle

NextList == list_branches \/ list_tags \/ list_remotes \/ loop_turn \/ loop_end

\* the call runs on: a turn of the loop that can be taken is taken
SpecList == InitList /\ [][NextList]_vars /\ WF_vars(NextList)

-----------------------------------------------------------------------------
(* Claims about listing.                                                   *)

\* the files of a directory tree, at any depth
FilesOf(d) == {n.path : n \in {q \in d : q.kind = "file"}}

\* the SpecRef the claim gives for a file
RefOfFile(op, rel) ==
    CASE op = "list_branches" -> Branch(JoinSlash(rel))
      [] op = "list_tags" -> Tag(JoinSlash(rel))
      [] op = "list_remotes" -> Remote(rel[1], JoinSlash(SubSeq(rel, 2, Len(rel))))

\* the call has returned the SpecRefs of the files, each once
ListedAll ==
    /\ walk.result.tag = "Ok"
    /\ Len(walk.result.val) = Cardinality(FilesOf(disk))
    /\ {walk.result.val[i] : i \in 1..Len(walk.result.val)}
          = {RefOfFile(walk.op, rel) : rel \in FilesOf(disk)}

-----------------------------------------------------------------------------
(* Parsing pack indexes and searching them (index.rs, fs/mod.rs).          *)

\* four big-endian bytes of a number below 2^31
U32(n) == <<(n \div 16777216) % 256, (n \div 65536) % 256, (n \div 256) % 256, n % 256>>

\* the fan-out table of a hash table: how many hashes start with a byte up to b
FanoutOf(hs) == [b \in 0..(FANOUT_COUNT - 1) |-> Cardinality({i \in 1..Len(hs) : hs[i][1] <= b})]

S_idx_magic == <<255, 116, 79, 99>>     \* "\377tOc"

\* the offset of an entry of the large-offset table: the high bit and k
LargeAt(k) == <<128, 0, 0, k>>

LargeA == <<0, 0, 0, 1, 0, 0, 0, 5>>
LargeB == <<0, 0, 0, 2, 0, 0, 0, 9>>

\* the bytes of an index file: header, hashes, crcs, offsets, large offsets,
\* the hash of the pack and the hash of the index
IndexFile(hs, offs, larges) ==
    S_idx_magic \o U32(2)
        \o [j \in 1..(4 * FANOUT_COUNT) |-> U32(FanoutOf(hs)[(j - 1) \div 4])[((j - 1) % 4) + 1]]
        \o Concat(hs)
        \o Concat([i \in 1..Len(hs) |-> U32(i)])
        \o Concat(offs)
        \o Concat(larges)
        \o HashB2AA \o Hash0A1B

IndexHashes3 == <<Hash0A1B, HashB1C0, HashB2AA>>

\* index files: no object; four objects; two in the wrong order; three with
\* small offsets, with large offsets named in order, out of order, one named
\* twice, one never named
IndexFiles ==
    {IndexFile(<<>>, <<>>, <<>>),
     IndexFile(<<Hash0A1B, HashB1C0, HashB1C7, HashB2AA>>, <<U32(12), U32(300), U32(70000), U32(1)>>, <<>>),
     IndexFile(<<HashB2AA, Hash0A1B>>, <<U32(12), U32(300)>>, <<>>),
     IndexFile(IndexHashes3, <<U32(12), U32(300), U32(70000)>>, <<>>),
     IndexFile(IndexHashes3, <<LargeAt(0), U32(12), LargeAt(1)>>, <<LargeA, LargeB>>),
     IndexFile(IndexHashes3, <<LargeAt(1), U32(12), LargeAt(0)>>, <<LargeA, LargeB>>),
     IndexFile(IndexHashes3, <<LargeAt(0), LargeAt(0), U32(12)>>, <<LargeA>>),
     IndexFile(IndexHashes3, <<U32(12), LargeAt(1), U32(13)>>, <<LargeA, LargeB>>)}

INDEX_HEADER_SIZE == 4 + 4 + 256 * 4

\* where the files are cut: in the header, in a hash, in a crc, in the hashes
\* at the end
Cuts(f) == {0, 3, 1000, INDEX_HEADER_SIZE + 10, Len(f) - 2 * DIGEST_SIZE - 2,
            Len(f) - DIGEST_SIZE - 5, Len(f) - 5}

\* the bytes given to parse_index: whole files, files cut short, a file with
\* one more byte
IndexInputs ==
    IndexFiles
        \cup UNION {{Take(f, k) : k \in {c \in Cuts(f) : c >= 0 /\ c < Len(f)}} : f \in IndexFiles}
        \cup {f \o <<7>> : f \in IndexFiles}

\* the bytes given to H::decode_bytes
RawHashInputs == {HashB1C0, HashB1C0 \o <<7>>, Take(HashB1C0, DIGEST_SIZE - 1), <<>>}

\* the bytes given to TreeEnt::decode: an entry, and the entry with its hash
\* cut short
CutEntryInputs ==
    {<<49, 48, 48, 54, 52, 52, 32>> \o S_a \o <<0>> \o Take(HashB1C0, k) : k \in {0, 5, DIGEST_SIZE}}

\* the prefixes searched for: "b1", "0a", "b", "b1c7", "ff", "B1"
IndexPrefixes ==
    {<<98, 49>>, <<48, 97>>, <<98>>, <<98, 49, 99, 55>>, <<102, 102>>, <<66, 49>>}

\* lookup_hash on one index that was parsed: the hashes the prefix is a
\* prefix of
SearchIndex ==
    /\ io.phase = "decoded"
    /\ io.kind = "index"
    /\ io.result.tag = "Done"
    /\ \E p \in IndexPrefixes :
          io' = [io EXCEPT !.phase = "searched", !.value = Partial_from_hex(p),
                           !.out = filter_hashes(io.result.val, Partial_from_hex(p))]
    /\ UNCHANGED <<files, walk, disk, fsres, tree, last>>

InitIndex ==
    /\ \/ \E b \in IndexInputs : io = [IoIdle EXCEPT !.phase = "bytes", !.kind = "index", !.input = b]
       \/ \E b \in RawHashInputs : io = [IoIdle EXCEPT !.phase = "bytes", !.kind = "hash", !.input = b]
       \/ \E b \in CutEntryInputs : io = [IoIdle EXCEPT !.phase = "bytes", !.kind = "tree_ent", !.input = b]
    /\ files = <<>>
    /\ walk = WalkIdle
    /\ disk = DiskIdle
    /\ fsres = FsIdle
    /\ tree = <<>>
    /\ last = LastIdle

NextIndex == DecodeBytes \/ SearchIndex

SpecIndex == InitIndex /\ [][NextIndex]_vars

-----------------------------------------------------------------------------
(* Claims about pack indexes.                                              *)

\* the first byte of a prefix of two hexadecimal digits or more
FirstByte(prefix) == 16 * HexVal(prefix.hex[1]) + HexVal(prefix.hex[2])

\* the places of the hash table the fan-out table gives for a first byte
Band(header, b) ==
    ((IF b = 0 THEN 0 ELSE header.fanouts[b - 1]) + 1)..header.fanouts[b]

\* C23: a search in one index examines the hashes of the band of the prefix's
\* first byte only, and for a prefix of one byte it returns as many hashes as
\* the fan-out table gives to that byte.
C23_SearchWithinBand ==
    (io.phase = "searched" /\ Len(io.value.hex) >= 2) =>
        /\ io.out.examined \subseteq Band(io.result.val.header, FirstByte(io.value))
        /\ Len(io.value.hex) = 2 =>
              Len(io.out.found) = numbers_with_prefix(io.result.val.header, FirstByte(io.value))

\* the number of objects the header of an index file gives
ObjectsOf(b) == U32Val(SubSeq(b, INDEX_HEADER_SIZE - 3, INDEX_HEADER_SIZE))

\* the i-th 32-bit offset of an index file
SmallOffset(b, i) ==
    SubSeq(b, INDEX_HEADER_SIZE + (DIGEST_SIZE + 4) * ObjectsOf(b) + 4 * i - 3,
              INDEX_HEADER_SIZE + (DIGEST_SIZE + 4) * ObjectsOf(b) + 4 * i)

\* the k-th entry, from 0, of the large-offset table of an index file
LargeOffset(b, k) ==
    SubSeq(b, INDEX_HEADER_SIZE + (DIGEST_SIZE + 8) * ObjectsOf(b) + 8 * k + 1,
              INDEX_HEADER_SIZE + (DIGEST_SIZE + 8) * ObjectsOf(b) + 8 * k + 8)

\* the low 31 bits of a 32-bit value
Low31(v) == U32Val(<<v[1] % 128, v[2], v[3], v[4]>>)

\* C24: each offset of a parsed index file is the 32-bit value when its high
\* bit is clear and else the entry of the large-offset table its low 31 bits
\* name; the hashes at the end of the file are the pack's and the index's.
C24_LargeOffsetsByIndex ==
    (io.phase = "decoded" /\ io.kind = "index" /\ io.input \in IndexFiles) =>
        /\ io.result.tag = "Done"
        /\ Len(io.result.val.offsets) = ObjectsOf(io.input)
        /\ \A i \in 1..ObjectsOf(io.input) :
              io.result.val.offsets[i] =
                  IF SmallOffset(io.input, i)[1] >= 128
                  THEN LargeOffset(io.input, Low31(SmallOffset(io.input, i)))
                  ELSE as_usize(SmallOffset(io.input, i))
        /\ io.result.val.pack = SubSeq(io.input, Len(io.input) - 2 * DIGEST_SIZE + 1,
                                       Len(io.input) - DIGEST_SIZE)
        /\ io.result.val.index = SubSeq(io.input, Len(io.input) - DIGEST_SIZE + 1, Len(io.input))

\* C28: a decoder gives Done, Incomplete or Error on every input; a raw hash
\* cut short gives Incomplete, alone, in a tree entry and in a pack index.
C28_ThreeOutcomes ==
    io.phase = "decoded" =>
        /\ io.result.tag \in {"Done", "Incomplete", "Error"}
        /\ (io.kind = "hash" /\ Len(io.input) < DIGEST_SIZE) => io.result.tag = "Incomplete"

-----------------------------------------------------------------------------
(* What the encoders return and what required_size gives (Encoder).        *)

\* encode_bytes_ returns digest_size
encode_bytes_size(h) == DIGEST_SIZE

\* encode_hex_ returns digest_size
encode_hex_size(h) == DIGEST_SIZE

\* encode_parent returns what encode_hex returned and 8
encode_parent_size(c) == encode_hex_size(c) + 8

\* Encoder for Parents: encode returns the sum over the parents
RECURSIVE Parents_encode_size(_)
Parents_encode_size(ps) ==
    IF ps = <<>> THEN 0 ELSE encode_parent_size(Head(ps)) + Parents_encode_size(Tail(ps))

\* Encoder for Parents: required_size
Parents_required_size(ps) == 7 + Len(ps) * (2 * DIGEST_SIZE + 1)

\* Encoder for Date
Date_encode_size(d) == Len(encode_for_obj(d))
Date_required_size(d) == Len(encode_for_obj(d))

\* Person::encode_name_email
encode_name_email(p) == p.name \o <<32, 60>> \o p.email \o <<62, 32>>

\* Encoder for Person
Person_encode(p) == encode_name_email(p) \o encode_for_obj(p.date)
Person_encode_size(p) == Len(encode_name_email(p)) + Date_encode_size(p.date)
Person_required_size(p) == Len(encode_name_email(p)) + Date_required_size(p.date)

\* Encoder for Encoding: the Display "encoding <raw>" is written
Encoding_encode(raw) == S_encoding_sp \o raw
Encoding_encode_size(raw) == Len(S_encoding_sp \o raw)
Encoding_required_size(raw) == Len(raw) + 9

\* the lengths of the lines " <line>\n" of a value
RECURSIVE ValueLines_size(_)
ValueLines_size(ls) ==
    IF ls = <<>> THEN 0 ELSE (1 + Len(Head(ls)) + 1) + ValueLines_size(Tail(ls))

\* Encoder for Extras: encode returns the lengths of what it formatted, and
\* required_size adds up the same lengths
RECURSIVE Extras_encode_size(_)
Extras_encode_size(m) ==
    IF m = <<>> THEN 0
    ELSE (Len(Head(m).key) + 1) + ValueLines_size(Lines(Head(m).value, <<>>))
            + Extras_encode_size(Tail(m))

Extras_required_size(m) == Extras_encode_size(m)

\* Encoder for TreeEnt: encode returns what encode_bytes returned and the
\* length of the text before the hash
TreeEnt_encode_size(e) ==
    encode_bytes_size(e.hash)
        + Len(get_ent_type(e) \o Permissions_display(e.perm) \o <<32>> \o e.name \o <<0>>)

\* Encoder for Tree: encode returns the length of the head and what the
\* entries returned
RECURSIVE Tree_entries_size(_)
Tree_entries_size(t) ==
    IF t = <<>> THEN 0 ELSE TreeEnt_encode_size(Head(t)) + Tree_entries_size(Tail(t))

Tree_encode_size(t) == Len(S_tree_sp \o ToDec(Tree_required_size(t)) \o <<0>>) + Tree_entries_size(t)

\* Encoder for Blob
Blob_encode_size(d) == Len(S_blob_sp \o ToDec(Len(d)) \o <<0>>) + Len(d)
Blob_required_size(d) == Len(d)

\* Encoder for Commit: encode returns the length of the head and of the text
Commit_encode_size(c) ==
    Len(S_commit_sp \o ToDec(Len(Commit_display(c))) \o <<0>>) + Len(Commit_display(c))

\* Encoder for Commit: required_size
Commit_required_size(c) ==
    0 + 2 * DIGEST_SIZE + 6
      + Parents_required_size(c.parents)
      + Person_required_size(c.author) + 1
      + Person_required_size(c.committer) + 1
      + (IF c.encoding.some THEN Encoding_required_size(c.encoding.val) + 1 ELSE 0)
      + Extras_required_size(c.extras)
      + Len(c.message)

\* the bytes an encoder appends to the writer
Written(kind, v) ==
    CASE kind = "hash_bytes" -> v
      [] kind = "hash_hex" -> to_hexadecimal(v)
      [] kind = "parents" -> Parents_display(v)
      [] kind = "person" -> Person_encode(v)
      [] kind = "encoding" -> Encoding_encode(v)
      [] kind \in {"date", "extras", "tree", "blob", "commit"} -> Encode(kind, v).val
      [] kind = "tree_ent" -> TreeEnt_encode(v)

\* the usize an encoder returns
Returned(kind, v) ==
    CASE kind = "hash_bytes" -> encode_bytes_size(v)
      [] kind = "hash_hex" -> encode_hex_size(v)
      [] kind = "parents" -> Parents_encode_size(v)
      [] kind = "person" -> Person_encode_size(v)
      [] kind = "encoding" -> Encoding_encode_size(v)
      [] kind = "date" -> Date_encode_size(v)
      [] kind = "extras" -> Extras_encode_size(v)
      [] kind = "tree_ent" -> TreeEnt_encode_size(v)
      [] kind = "tree" -> Tree_encode_size(v)
      [] kind = "blob" -> Blob_encode_size(v)
      [] kind = "commit" -> Commit_encode_size(v)

\* Encoder::required_size
required_size(kind, v) ==
    CASE kind = "parents" -> Parents_required_size(v)
      [] kind = "person" -> Person_required_size(v)
      [] kind = "encoding" -> Encoding_required_size(v)
      [] kind = "date" -> Date_required_size(v)
      [] kind = "extras" -> Extras_required_size(v)
      [] kind = "tree_ent" -> TreeEnt_required_size(v)
      [] kind = "tree" -> Tree_required_size(v)
      [] kind = "blob" -> Blob_required_size(v)
      [] kind = "commit" -> Commit_required_size(v)

\* the types that implement Encoder; a hash has encode_bytes and encode_hex
EncoderKinds ==
    {"parents", "person", "encoding", "date", "extras", "tree_ent", "tree", "blob", "commit"}

\* v.required_size()
RequiredSize ==
    /\ io.phase = "value"
    /\ io.kind \in EncoderKinds
    /\ io' = [io EXCEPT !.phase = "sized", !.result = Ok(required_size(io.kind, io.value))]
    /\ UNCHANGED <<files, walk, disk, fsres, tree, last>>

\* v.encode(&mut writer): the bytes appended and the usize returned
EncodeSized ==
    /\ io.phase \in {"value", "sized"}
    /\ io' = [io EXCEPT !.phase = "written",
                        !.out = [bytes |-> Written(io.kind, io.value),
                                 sz |-> Returned(io.kind, io.value)]]
    /\ UNCHANGED <<files, walk, disk, fsres, tree, last>>

S_UTF8 == <<85, 84, 70, 45, 56>>        \* "UTF-8"
S_msg_nl == <<109, 115, 103, 10>>       \* "msg\n"

PersonValues ==
    {PersonOf(S_a, <<97, 64, 98>>, DateOf(7, 3600)),
     PersonOf(<<>>, <<>>, DateOf(1480007832, -1800))}

ParentsValues == {<<>>, <<HashB1C0>>, <<HashB1C0, HashB2AA>>, <<HashB1C0, HashB2AA, Hash0A1B>>}

\* commits with no parent, one or several; with or without an encoding, extra
\* headers and a message
CommitValues ==
    {[tree_ref |-> Hash0A1B, parents |-> ps, author |-> PersonOf(S_a, <<97, 64, 98>>, DateOf(7, 3600)),
      committer |-> PersonOf(<<67>>, <<99>>, DateOf(12, 0)), encoding |-> en, extras |-> ex,
      message |-> m] :
        ps \in ParentsValues, en \in {None, Some(S_UTF8)},
        ex \in {<<>>, <<[key |-> S_a, value |-> S_x_nl_y_nl]>>}, m \in {<<>>, S_msg_nl}}

\* the values given to the encoders, with their kind
SizedValues ==
    ({"hash_bytes", "hash_hex"} \X HashData)
        \cup ({"parents"} \X ParentsValues)
        \cup ({"person"} \X PersonValues)
        \cup ({"encoding"} \X {S_UTF8, <<>>})
        \cup ({"date"} \X DateValues)
        \cup ({"extras"} \X ExtrasValues)
        \cup ({"tree_ent"} \X EntryValues)
        \cup ({"tree"} \X {t \in TreeValues : \A i \in 1..Len(t) : IsUtf8(t[i].name)})
        \cup ({"blob"} \X BlobValues)
        \cup ({"commit"} \X CommitValues)

InitSizes ==
    /\ \E kv \in SizedValues : io = [IoIdle EXCEPT !.phase = "value", !.kind = kv[1], !.value = kv[2]]
    /\ files = <<>>
    /\ walk = WalkIdle
    /\ disk = DiskIdle
    /\ fsres = FsIdle
    /\ tree = <<>>
    /\ last = LastIdle

NextSizes == RequiredSize \/ EncodeSized

SpecSizes == InitSizes /\ [][NextSizes]_vars

-----------------------------------------------------------------------------
(* Claims about sizes.                                                     *)

\* C25: required_size of a commit is the length its encode writes in the
\* header "commit <len>\0", the number of bytes written after the header.
C25_CommitRequiredSize ==
    (io.phase = "written" /\ io.kind = "commit" /\ io.result.tag = "Ok") =>
        /\ nom_parse_commit_head(io.out.bytes).tag = "Done"
        /\ io.result.val = nom_parse_commit_head(io.out.bytes).val
        /\ io.result.val = Len(nom_parse_commit_head(io.out.bytes).rest)

\* C26: the usize an encoder returns is the number of bytes it appended to
\* the writer.
C26_ReturnedIsWritten ==
    io.phase = "written" => io.out.sz = Len(io.out.bytes)

-----------------------------------------------------------------------------
(* Claims about the length in the header of a tree.                        *)

\* the entries of a payload that is a whole sequence of entries, or what the
\* first entry that does not decode gives
RECURSIVE WholeEntries(_, _)
WholeEntries(b, t) ==
    IF b = <<>> THEN Done(<<>>, t)
    ELSE if_done(TreeEnt_decode(b), TreeEnt_decode(b), LAMBDA r :
            WholeEntries(r.rest, BTreeSet_insert(t, r.val).set))

\* C27: Tree::decode of "tree <len>\0" and at least len bytes reads the
\* entries from the first len bytes and returns the bytes after them; it is
\* not Done when those bytes are not a whole sequence of entries, and it is
\* Incomplete when fewer than len bytes follow.
C27_TreeReadsLenBytes ==
    (io.phase = "decoded" /\ io.kind = "tree" /\ nom_parse_tree_head(io.input).tag = "Done") =>
        LET len == nom_parse_tree_head(io.input).val
            b == nom_parse_tree_head(io.input).rest
        IN
        IF Len(b) < len THEN io.result = Incomplete
        ELSE IF WholeEntries(Take(b, len), <<>>).tag = "Done"
        THEN io.result = Done(Drop(b, len), WholeEntries(Take(b, len), <<>>).val)
        ELSE io.result.tag # "Done"

-----------------------------------------------------------------------------
(* Comparing tree entries and trees (tree.rs).                             *)

\* equality of every field, as a derived PartialEq would have it
TreeEnt_eq_derived(a, b) == a = b

\* PartialEq for TreeEnt: the file paths are compared
TreeEnt_eq(a, b) == PathCmp(a.name, b.name) = 0

\* Ord for TreeEnt: the order of the file paths
TreeEnt_cmp(a, b) == PathCmp(a.name, b.name)

\* the derived PartialEq of Tree: BTreeSet's, as many entries and each equal
\* to the one at its place
Tree_eq(t, u) == Len(t) = Len(u) /\ \A i \in 1..Len(t) : TreeEnt_eq(t[i], u[i])

\* entries of the names "a", "a.b" and "b", blobs and trees, of two
\* permissions and two hashes
ComparedEntries ==
    {TreeEnt_new_from(ty, perm, name, h) :
        ty \in {<<52>>, <<49, 48>>}, perm \in {default_file, default_exe},
        name \in {S_a, S_a_dot_b, <<98>>}, h \in {HashB1C0, HashB2AA}}

\* trees of at most two of the entries that are blobs of the default
\* permissions
ComparedTrees ==
    {BTreeSet_extend(<<>>, es) :
        es \in UNION {[1..k -> {e \in ComparedEntries : e.perm = default_file /\ get_ent_type(e) = <<49, 48>>}] :
                         k \in 0..2}}

\* a == b and a.cmp(&b) of two entries
CompareEntries ==
    /\ io.phase = "pair"
    /\ io.kind = "tree_ent"
    /\ io' = [io EXCEPT !.phase = "compared",
                        !.out = [eq |-> TreeEnt_eq(io.value[1], io.value[2]),
                                 cmp |-> TreeEnt_cmp(io.value[1], io.value[2])]]
    /\ UNCHANGED <<files, walk, disk, fsres, tree, last>>

\* t == u of two trees
CompareTrees ==
    /\ io.phase = "pair"
    /\ io.kind = "tree"
    /\ io' = [io EXCEPT !.phase = "compared",
                        !.out = [eq |-> Tree_eq(io.value[1], io.value[2]), cmp |-> 0]]
    /\ UNCHANGED <<files, walk, disk, fsres, tree, last>>

InitCompare ==
    /\ \/ \E a \in ComparedEntries, b \in ComparedEntries :
             io = [IoIdle EXCEPT !.phase = "pair", !.kind = "tree_ent", !.value = <<a, b>>]
       \/ \E t \in ComparedTrees, u \in ComparedTrees :
             io = [IoIdle EXCEPT !.phase = "pair", !.kind = "tree", !.value = <<t, u>>]
    /\ files = <<>>
    /\ walk = WalkIdle
    /\ disk = DiskIdle
    /\ fsres = FsIdle
    /\ tree = <<>>
    /\ last = LastIdle

NextCompare == CompareEntries \/ CompareTrees

SpecCompare == InitCompare /\ [][NextCompare]_vars

-----------------------------------------------------------------------------
(* Claims about comparing.                                                 *)

\* the names a tree holds
NameSet(t) == {t[i].name : i \in 1..Len(t)}

\* -1, 0 or 1
SignOf(n) == IF n < 0 THEN -1 ELSE IF n > 0 THEN 1 ELSE 0

\* C29: two entries are equal exactly when their names are, whatever their
\* kind, permissions and hash, and they are ordered as their names are; two
\* trees of the same names are equal.
C29_ComparedByName ==
    io.phase = "compared" =>
        /\ io.kind = "tree_ent" =>
              /\ io.out.eq = (io.value[1].name = io.value[2].name)
              /\ SignOf(io.out.cmp) = SignOf(BytesCmp(io.value[1].name, io.value[2].name))
        /\ io.kind = "tree" =>
              io.out.eq = (NameSet(io.value[1]) = NameSet(io.value[2]))

\* two trees of the names "a" and "b" whose entries have different hashes,
\* compared equal
C29_Witness ==
    /\ io.phase = "compared"
    /\ io.kind = "tree"
    /\ io.value[1] = <<TreeEntBlob(default_file, S_a, HashB1C0),
                       TreeEntBlob(default_file, <<98>>, HashB1C0)>>
    /\ io.value[2] = <<TreeEntBlob(default_file, S_a, HashB2AA),
                       TreeEntBlob(default_file, <<98>>, HashB2AA)>>
    /\ io.out.eq

-----------------------------------------------------------------------------
(* Claims about the length in the header of a commit.                      *)

\* the number the header of a commit declares
DeclaredLen(b) == nom_parse_commit_head(b).val

\* the bytes after the header of a commit
BodyOf(b) == nom_parse_commit_head(b).rest

\* the texts of a commit up to the end of its extra headers
CommitHeaders ==
    {t \o p \o a \o CommitterLine \o e \o x :
        t \in TreeLines, p \in ParentBlocks, a \in AuthorLines, e \in EncodingBlocks,
        x \in ExtrasBlocks}

\* the bytes of b before its last n
WithoutLast(b, n) == Take(b, Len(b) - n)

\* C30: when Commit::decode is Done the remainder is empty and the message
\* is all that follows the extra headers, whatever length the header
\* declares: the same bytes after a header that declares 0 decode to the
\* same commit.
C30_LengthNotUsed ==
    (io.phase = "decoded" /\ io.kind = "commit" /\ io.result.tag = "Done") =>
        LET m == io.result.val.message
            body == BodyOf(io.input)
        IN
        /\ io.result.rest = <<>>
        /\ m \in Messages
        /\ WithoutLast(body, Len(m)) \in CommitHeaders
        /\ body = WithoutLast(body, Len(m)) \o m
        /\ Commit_decode(S_commit_sp \o <<48, 0>> \o body) = io.result

\* a commit whose header declares 0 bytes decoded with the message "\nmsg\n"
C30_Witness ==
    /\ io.phase = "decoded"
    /\ io.kind = "commit"
    /\ io.result.tag = "Done"
    /\ DeclaredLen(io.input) = 0
    /\ io.result.rest = <<>>
    /\ io.result.val.message = <<10, 109, 115, 103, 10>>
====
